---- MODULE Spec2Model ----
(***************************************************************************)
(* Verification model of bmclib: the Client's capability dispatch over the *)
(* driver Registry (client.go and the bmc package it passes through to),   *)
(* Client.Open and Client.Close, the racadm job poller                     *)
(* (Racadm.ChangeBiosCfg, SetBiosConfigurationFromFile, Racadm.run) and    *)
(* the configuration adapters of the idrac8 provider.                      *)
(***************************************************************************)
EXTENDS Integers, Sequences, FiniteSets, TLC

VARIABLES
    \* ---- Client / Registry / Dispatcher ----
    registry,     \* c.Registry.Drivers: ordered sequence of descriptors
    ctxDone,      \* the caller's context is cancelled or past its deadline
    ctxUsed,      \* the context the dispatch checks: "ctx" (the caller's) or "background"
    op,           \* the logical operation in progress ("none" before the call)
    dpc,          \* dispatcher position: "idle", "iter", "inflight", "done"
    candidates,   \* the candidate list computed for the operation (registry indices)
    idx,          \* position in the candidate list of the current candidate
    calls,        \* the driver invocations made so far, in order, each with its outcome
    meta,         \* ExecutionMetadata of the operation
    result,       \* outcome returned to the caller
    served,       \* registry index of the driver whose result was returned (0: none)
    sink,         \* the metadata sink of the caller, as the caller sees it
    handles       \* the DriverInterface of each registered descriptor (an instance
                  \* identity), parallel to registry

    ,
    \* ---- Racadm.ChangeBiosCfg (job poller) ----
    ppc,          \* position: "idle", "select" (blocked in the select), "query"
                  \* (GetJobQueue in flight), "returned"
    ret,          \* what ChangeBiosCfg returned ("none" while it runs)
    jobID,        \* the job identifier parsed from the submission output
    errorCount,   \* consecutive failed status reads
    jobCtxDone,   \* ctx.Done() is closed
    timeoutReady, \* the time.After(timeout) channel holds its value
    tickReady,    \* ticker.C holds a tick (buffer of one)
    now,          \* ticks the ticker has fired since the loop began
    submitted,    \* number of `racadm set` commands run
    lastRead,     \* the last status read: its error kind, output and parsed value
    reads,        \* outcomes of the most recent status reads (at most maxErrors)
    deadline,     \* ctx.Deadline() as ChangeBiosCfg found it at its call
    output,       \* what the submission (`racadm set`) returned to ChangeBiosCfg
    queries       \* number of GetJobQueue calls made by the poll loop

    ,
    \* ---- Racadm.SetBiosConfigurationFromFile ----
    spc,          \* position: "idle", "changing" (ChangeBiosCfg is running), "returned"
    tmpFile,      \* the scratch file: "none", "exists" or "removed"
    sret,         \* what SetBiosConfigurationFromFile returned ("none" while it runs)
    \* ---- Racadm.run: invocations that overlap on one Racadm ----
    executorArgs, \* the argument list that s.Executor holds (SetArgs stores it)
    runs          \* each invocation of GetJobQueue: its position, its job id, the
                  \* arguments it built and the arguments its command was executed with

    ,
    \* ---- Client.Open / Client.Close ----
    opc,          \* position: "idle", "opening", "opened", "closing", "closed"
    attempts,     \* outcome of the open attempt on each handed driver so far, in order
    ifs,          \* what OpenConnectionFromInterfaces returned: the opened handles
    active,       \* what Client.Open returned: registry indices, in order
    openErr,      \* Client.Open returned an error
    closes,       \* outcome of the close attempt on each handed driver so far, in order
    closeErr      \* what Client.Close returned: 0 (nil) or the position of the error

    ,
    \* ---- racadm.go and idrac8 pure functions ----
    input,        \* the argument string
    called,       \* the function applied to it ("none" before)
    idResult,     \* what parseJobId returned
    pctResult,    \* what parsePercentComplete returned
    escaped       \* what escapeLdapString returned

    ,
    \* ---- idrac8 configuration adapters ----
    adapter,      \* the adapter method called ("none" before the call)
    config,       \* its configuration argument
    apc,          \* its position: "idle", "waiting" (a vendor call is in flight),
                  \* "returned"
    locals,       \* its local variables, and the step the call in flight belongs to
    http,         \* the vendor calls it made, in order, each with its response
    aerr,         \* the error it returned ("nil": none)
    areset        \* the reset-required result it returned

pvars == <<ppc, ret, jobID, errorCount, jobCtxDone, timeoutReady, tickReady, now,
           submitted, lastRead, reads, deadline, output, queries>>

svars == <<spc, tmpFile, sret, executorArgs, runs>>

dvars == <<registry, ctxDone, ctxUsed, op, dpc, candidates, idx, calls, meta, result, served, sink,
           handles>>

cvars == <<opc, attempts, ifs, active, openErr, closes, closeErr>>

fvars == <<input, called, idResult, pctResult, escaped>>

ivars == <<adapter, config, apc, locals, http, aerr, areset>>

vars == <<dvars, pvars, cvars, fvars, ivars, svars>>

----------------------------------------------------------------------------
(* Bounds of the model *)

\* most descriptors a Registry holds
MaxDrivers == 3

\* ticks the ticker may still fire after the overall timeout has elapsed
MaxLateTicks == 1

\* the value that stands for every parsed integer of ten digits and more
Saturated == 1000000000

\* most lines of an argument string of the pure functions
MaxLines == 2

\* most LDAP groups in the list handed to LdapGroups
MaxGroups == 2

\* most users in the list handed to User
MaxUsers == 2

\* user slots of the device
MaxSlots == 2

\* invocations of GetJobQueue that overlap on one Racadm
MaxInvocations == 2

\* groups of the longest list of LDAP groups, all of them valid
MaxValidGroups == 6

----------------------------------------------------------------------------
(* Registry *)

DriverNames == {"ipmitool", "gofish"}

\* the feature sets a registered driver advertises
FeatureSets ==
    { {},
      {"PowerStateGetter", "PowerSetter"},
      {"BMCVersionGetter"},
      {"PowerStateGetter", "PowerSetter", "BMCVersionGetter"} }

Descriptors == [name : DriverNames, caps : FeatureSets]

\* Registry.Register: appends, no deduplication by name
register(reg, d) == Append(reg, d)

\* Registry.GetDriverInterfaces: the registry indices of all descriptors, in
\* registration order
GetDriverInterfaces(reg) == [i \in 1..Len(reg) |-> i]

RECURSIVE FilterSeq(_, _, _)
FilterSeq(s, reg, cap) ==
    IF s = <<>> THEN <<>>
    ELSE IF cap \in reg[Head(s)].caps
         THEN <<Head(s)>> \o FilterSeq(Tail(s), reg, cap)
         ELSE FilterSeq(Tail(s), reg, cap)

\* (mutation of driversFor: every handed driver is a candidate)
driversForAny(drivers, reg, cap) == drivers

\* driversFor(capability): the subsequence of the handed drivers whose
\* capability set contains cap, registration order preserved
driversFor(drivers, reg, cap) == FilterSeq(drivers, reg, cap)

----------------------------------------------------------------------------
(* Public operations of Client *)

\* the capability an operation's library function asks of a driver
CapabilityOf(o) ==
    CASE o = "GetPowerState" -> "PowerStateGetter"
      [] o = "SetPowerState" -> "PowerSetter"
      [] o = "GetBMCVersion" -> "BMCVersionGetter"

EmptyMap == [n \in {} |-> 0]

NoMetadata == [successfulProvider |-> "", perProviderErrors |-> EmptyMap]

\* the caller's view of a sink the operation never received
Unset == [successfulProvider |-> "unset", perProviderErrors |-> EmptyMap]

\* record error e under provider name n (a mapping keyed by name)
RecordError(m, n, e) ==
    [m EXCEPT !.perProviderErrors =
        [k \in (DOMAIN m.perProviderErrors) \cup {n} |->
            IF k = n THEN e ELSE m.perProviderErrors[k]]]

\* invocations that have not returned
InFlight == {k \in 1..Len(calls) : calls[k].outcome = "pending"}

\* return to the caller: the outcome, and the metadata into the sink when the
\* operation was given one
Finish(res, m, drv) ==
    /\ dpc' = "done"
    /\ result' = res
    /\ served' = drv
    /\ meta' = m
    /\ sink' = IF sink = Unset THEN Unset ELSE m

\* (mutation of DispatchStart: an empty candidate list is a no-op success)
DispatchStartNoOp(o, ctx, drivers, withSink) ==
    /\ dpc = "idle"
    /\ op' = o
    /\ ctxUsed' = ctx
    /\ candidates' = driversFor(drivers, registry, CapabilityOf(o))
    /\ idx' = 1
    /\ IF candidates' = <<>>
       THEN /\ dpc' = "done"
            /\ result' = "success"
            /\ sink' = IF withSink THEN NoMetadata ELSE Unset
       ELSE /\ dpc' = "iter"
            /\ result' = result
            /\ sink' = IF withSink THEN NoMetadata ELSE Unset
    /\ UNCHANGED <<registry, ctxDone, calls, meta, served, handles>>
    /\ UNCHANGED <<pvars, cvars, fvars, ivars, svars>>

\* bmc.<Op>FromInterfaces(ctx, drivers, metadata...): steps 1 and 2 of the
\* dispatch, the candidate list and the empty check
DispatchStart(o, ctx, drivers, withSink) ==
    /\ dpc = "idle"
    /\ op' = o
    /\ ctxUsed' = ctx
    /\ candidates' = driversFor(drivers, registry, CapabilityOf(o))
    /\ idx' = 1
    /\ IF candidates' = <<>>
       THEN /\ dpc' = "done"
            /\ result' = "no compatible driver"
            /\ sink' = IF withSink THEN NoMetadata ELSE Unset
       ELSE /\ dpc' = "iter"
            /\ result' = result
            /\ sink' = IF withSink THEN NoMetadata ELSE Unset
    /\ UNCHANGED <<registry, ctxDone, calls, meta, served, handles>>
    /\ UNCHANGED <<pvars, cvars, fvars, ivars, svars>>

Reverse(q) == [k \in 1..Len(q) |-> q[Len(q) + 1 - k]]

\* (mutation of GetPowerState: the drivers handed over in another order)
GetPowerStateReordered ==
    DispatchStart("GetPowerState", "ctx", Reverse(GetDriverInterfaces(registry)), TRUE)

\* Client.GetPowerState(ctx, metadata...)
GetPowerState ==
    DispatchStart("GetPowerState", "ctx", GetDriverInterfaces(registry), TRUE)

\* (mutation of SetPowerState: a fresh context handed over, not the caller's)
SetPowerStateBackground ==
    DispatchStart("SetPowerState", "background", GetDriverInterfaces(registry), TRUE)

\* Client.SetPowerState(ctx, state, metadata...)
SetPowerState ==
    DispatchStart("SetPowerState", "ctx", GetDriverInterfaces(registry), TRUE)

\* Client.GetBMCVersion(ctx): no metadata parameter
GetBMCVersion ==
    DispatchStart("GetBMCVersion", "ctx", GetDriverInterfaces(registry), FALSE)

\* a driver instance that no registered descriptor holds yet
NewInstance(hs) == Len(hs) + 1

\* c.Registry.Register(name, protocol, features, nil, driver), during setup,
\* with a driver instance of its own, as registerProviders does
Register ==
    /\ dpc = "idle"
    /\ Len(registry) < MaxDrivers
    /\ \E d \in Descriptors : registry' = register(registry, d)
    /\ handles' = Append(handles, NewInstance(handles))
    /\ UNCHANGED <<ctxDone, ctxUsed, op, dpc, candidates, idx, calls, meta, result, served, sink>>
    /\ UNCHANGED <<pvars, cvars, fvars, ivars, svars>>

\* the caller cancels the context, or its deadline passes
Cancel ==
    /\ ~ctxDone
    /\ dpc # "done"
    /\ ctxDone' = TRUE
    /\ UNCHANGED <<registry, ctxUsed, op, dpc, candidates, idx, calls, meta, result, served, sink, handles>>
    /\ UNCHANGED <<pvars, cvars, fvars, ivars, svars>>

\* the context the dispatch was handed is done
CtxExpired == ctxUsed = "ctx" /\ ctxDone

\* (mutation of Invoke: every remaining candidate is invoked at once)
InvokeFanOut ==
    /\ dpc = "iter"
    /\ IF CtxExpired
       THEN /\ Finish("context error", meta, 0)
            /\ UNCHANGED <<registry, ctxDone, ctxUsed, op, candidates, idx, calls, handles>>
       ELSE /\ calls' = calls \o [k \in 1..(Len(candidates) - idx + 1) |->
                                    [driver |-> candidates[idx + k - 1], outcome |-> "pending"]]
            /\ dpc' = "inflight"
            /\ UNCHANGED <<registry, ctxDone, ctxUsed, op, candidates, idx, meta, result,
                           served, sink, handles>>
    /\ UNCHANGED <<pvars, cvars, fvars, ivars, svars>>

\* step 3a/3b: check ctx, then invoke the current candidate
Invoke ==
    /\ dpc = "iter"
    /\ IF CtxExpired
       THEN /\ Finish("context error", meta, 0)
            /\ UNCHANGED <<registry, ctxDone, ctxUsed, op, candidates, idx, calls, handles>>
       ELSE /\ calls' = Append(calls, [driver |-> candidates[idx], outcome |-> "pending"])
            /\ dpc' = "inflight"
            /\ UNCHANGED <<registry, ctxDone, ctxUsed, op, candidates, idx, meta, result,
                           served, sink, handles>>
    /\ UNCHANGED <<pvars, cvars, fvars, ivars, svars>>

\* step 3c/3d/4: the invocation of the current candidate returns
DriverReturn ==
    /\ dpc = "inflight"
    /\ \E ok \in BOOLEAN :
         LET d == candidates[idx]
             n == registry[d].name
         IN  /\ calls' = [calls EXCEPT ![Len(calls)].outcome =
                                          IF ok THEN "ok" ELSE "failed"]
             /\ IF ok
                THEN /\ Finish("success", [meta EXCEPT !.successfulProvider = n], d)
                     /\ idx' = idx
                ELSE IF idx = Len(candidates)
                THEN /\ Finish("aggregated error", RecordError(meta, n, d), 0)
                     /\ idx' = idx
                ELSE /\ meta' = RecordError(meta, n, d)
                     /\ idx' = idx + 1
                     /\ dpc' = "iter"
                     /\ UNCHANGED <<result, served, sink>>
    /\ UNCHANGED <<registry, ctxDone, ctxUsed, op, candidates, handles>>
    /\ UNCHANGED <<pvars, cvars, fvars, ivars, svars>>

----------------------------------------------------------------------------
(* Client.Open and Client.Close *)

\* the feature set of a driver that implements every interface
AllFeatures == {"PowerStateGetter", "PowerSetter", "BMCVersionGetter"}

\* c.Registry.Register(name, protocol, features, nil, driver), during setup,
\* with any driver instance: a new one or one that is registered already
RegisterInstance ==
    /\ opc = "idle"
    /\ dpc = "idle"
    /\ Len(registry) < MaxDrivers
    /\ \E n \in DriverNames, h \in 1..NewInstance(handles) :
         /\ registry' = register(registry, [name |-> n, caps |-> AllFeatures])
         /\ handles' = Append(handles, h)
    /\ UNCHANGED <<ctxDone, ctxUsed, op, dpc, candidates, idx, calls, meta, result, served, sink>>
    /\ UNCHANGED <<pvars, cvars, fvars, ivars, svars>>

\* Client.Open, the call of bmc.OpenConnectionFromInterfaces with the
\* registry's driver interfaces
Open ==
    /\ opc = "idle"
    /\ opc' = "opening"
    /\ attempts' = <<>>
    /\ UNCHANGED <<ifs, active, openErr, closes, closeErr>>
    /\ UNCHANGED <<dvars, pvars, fvars, ivars, svars>>

\* open(ctx, allDescriptors): the attempt to open the next handed handle
OpenAttempt ==
    /\ opc = "opening"
    /\ Len(attempts) < Len(GetDriverInterfaces(registry))
    /\ \E ok \in BOOLEAN : attempts' = Append(attempts, ok)
    /\ UNCHANGED <<opc, ifs, active, openErr, closes, closeErr>>
    /\ UNCHANGED <<dvars, pvars, fvars, ivars, svars>>

\* the handles that opened, in the order they were handed over
RECURSIVE Opened(_, _, _)
Opened(drivers, hs, outcomes) ==
    IF drivers = <<>> THEN <<>>
    ELSE IF Head(outcomes)
         THEN <<hs[Head(drivers)]>> \o Opened(Tail(drivers), hs, Tail(outcomes))
         ELSE Opened(Tail(drivers), hs, Tail(outcomes))

\* the inner loop of Client.Open: for _, em := range ifs, elem is appended
\* whenever em == elem.DriverInterface
RECURSIVE MatchesOf(_, _, _)
MatchesOf(elem, hs, opened) ==
    IF opened = <<>> THEN <<>>
    ELSE IF Head(opened) = hs[elem]
         THEN <<elem>> \o MatchesOf(elem, hs, Tail(opened))
         ELSE MatchesOf(elem, hs, Tail(opened))

\* the outer loop of Client.Open: for _, elem := range c.Registry.Drivers
RECURSIVE ActiveOf(_, _, _)
ActiveOf(drivers, hs, opened) ==
    IF drivers = <<>> THEN <<>>
    ELSE MatchesOf(Head(drivers), hs, opened) \o ActiveOf(Tail(drivers), hs, opened)

\* bmc.OpenConnectionFromInterfaces returns the opened handles, or an error
\* when none opened; Client.Open builds the Drivers it returns
OpenReturns ==
    /\ opc = "opening"
    /\ Len(attempts) = Len(GetDriverInterfaces(registry))
    /\ ifs' = Opened(GetDriverInterfaces(registry), handles, attempts)
    /\ IF ifs' = <<>>
       THEN /\ openErr' = TRUE
            /\ active' = <<>>
       ELSE /\ openErr' = FALSE
            /\ active' = ActiveOf(GetDriverInterfaces(registry), handles, ifs')
    /\ opc' = "opened"
    /\ UNCHANGED <<attempts, closes, closeErr>>
    /\ UNCHANGED <<dvars, pvars, fvars, ivars, svars>>

\* Client.Close, the call of bmc.CloseConnectionFromInterfaces with the
\* registry's driver interfaces
Close ==
    /\ opc \in {"idle", "opened"}
    /\ opc' = "closing"
    /\ closes' = <<>>
    /\ UNCHANGED <<attempts, ifs, active, openErr, closeErr>>
    /\ UNCHANGED <<dvars, pvars, fvars, ivars, svars>>

\* close(ctx, descriptors): the attempt to close the next handed handle; a
\* failure does not end the loop
CloseAttempt ==
    /\ opc = "closing"
    /\ Len(closes) < Len(GetDriverInterfaces(registry))
    /\ \E ok \in BOOLEAN : closes' = Append(closes, ok)
    /\ UNCHANGED <<opc, attempts, ifs, active, openErr, closeErr>>
    /\ UNCHANGED <<dvars, pvars, fvars, ivars, svars>>

\* the position of the first failed attempt, 0 when none failed
FirstFailure(outcomes) ==
    IF \A k \in 1..Len(outcomes) : outcomes[k] THEN 0
    ELSE CHOOSE k \in 1..Len(outcomes) :
            ~outcomes[k] /\ \A j \in 1..(k - 1) : outcomes[j]

\* bmc.CloseConnectionFromInterfaces returns the first error encountered
CloseReturns ==
    /\ opc = "closing"
    /\ Len(closes) = Len(GetDriverInterfaces(registry))
    /\ closeErr' = FirstFailure(closes)
    /\ opc' = "closed"
    /\ UNCHANGED <<attempts, ifs, active, openErr, closes>>
    /\ UNCHANGED <<dvars, pvars, fvars, ivars, svars>>

----------------------------------------------------------------------------
(* A session of a Client: Open, then operations (examples/status/main.go) *)

\* err := cl.Open(ctx) has returned without error
SessionOpen == opc = "opened" /\ ~openErr

\* state, err := cl.GetPowerState(ctx), after Open
GetPowerStateAfterOpen == SessionOpen /\ GetPowerState

\* cl.SetPowerState(ctx, state), after Open
SetPowerStateAfterOpen == SessionOpen /\ SetPowerState

\* cl.GetBMCVersion(ctx), after Open
GetBMCVersionAfterOpen == SessionOpen /\ GetBMCVersion

----------------------------------------------------------------------------
(* Strings (Go's strings package, as far as racadm.go uses it) *)

RECURSIVE IndexFrom(_, _, _)
IndexFrom(s, sub, i) ==
    IF i + Len(sub) > Len(s) THEN -1
    ELSE IF SubSeq(s, i + 1, i + Len(sub)) = sub THEN i
    ELSE IndexFrom(s, sub, i + 1)

\* strings.Index: the 0-based offset of the first occurrence of sub in s, or -1
Index(s, sub) == IndexFrom(s, sub, 0)

\* strings.Contains
Contains(s, sub) == Index(s, sub) # -1

\* strings.HasPrefix
HasPrefix(s, prefix) == Len(s) >= Len(prefix) /\ SubSeq(s, 1, Len(prefix)) = prefix

\* strings.Split(s, sep), sep not empty
RECURSIVE Split(_, _)
Split(s, sep) ==
    LET i == Index(s, sep)
    IN  IF i = -1 THEN <<s>>
        ELSE <<SubSeq(s, 1, i)>> \o Split(SubSeq(s, i + Len(sep) + 1, Len(s)), sep)

Digits == {"0", "1", "2", "3", "4", "5", "6", "7", "8", "9"}

DigitValue(c) ==
    CASE c = "0" -> 0 [] c = "1" -> 1 [] c = "2" -> 2 [] c = "3" -> 3 [] c = "4" -> 4
      [] c = "5" -> 5 [] c = "6" -> 6 [] c = "7" -> 7 [] c = "8" -> 8 [] c = "9" -> 9

\* the longest run of digits of s that starts at 0-based offset i
RECURSIVE DigitRun(_, _)
DigitRun(s, i) ==
    IF i < Len(s) /\ SubSeq(s, i + 1, i + 1) \in Digits
    THEN SubSeq(s, i + 1, i + 1) \o DigitRun(s, i + 1)
    ELSE ""

RECURSIVE StripZeros(_)
StripZeros(d) == IF Len(d) > 1 /\ SubSeq(d, 1, 1) = "0" THEN StripZeros(Tail(d)) ELSE d

RECURSIVE DecimalValue(_)
DecimalValue(d) ==
    IF d = "" THEN 0
    ELSE 10 * DecimalValue(SubSeq(d, 1, Len(d) - 1)) + DigitValue(SubSeq(d, Len(d), Len(d)))

\* whether digit string a is greater than digit string b of the same length
RECURSIVE DigitsGreater(_, _)
DigitsGreater(a, b) ==
    IF a = "" THEN FALSE
    ELSE IF Head(a) # Head(b) THEN DigitValue(Head(a)) > DigitValue(Head(b))
    ELSE DigitsGreater(Tail(a), Tail(b))

MaxInt64Digits == "9223372036854775807"

\* strconv.Atoi on a non-empty string of digits: a range error past the int64
\* range; values of ten digits and more are all represented by Saturated
Atoi(d) ==
    LET z == StripZeros(d)
    IN  IF \/ Len(z) > Len(MaxInt64Digits)
           \/ (Len(z) = Len(MaxInt64Digits) /\ DigitsGreater(z, MaxInt64Digits))
        THEN [err |-> TRUE, value |-> 0]
        ELSE IF Len(z) > 9
        THEN [err |-> FALSE, value |-> Saturated]
        ELSE [err |-> FALSE, value |-> DecimalValue(z)]

----------------------------------------------------------------------------
(* racadm.go: constants and parsers *)

\* tickerInterval = 30 * time.Second (in seconds)
tickerInterval == 30

\* timeout = (14 * time.Minute) + (30 * time.Second) (in seconds)
timeout == 870

\* maxErrors is the maximum number of errors before failing
maxErrors == 3

JobIdMarker == "JID_"

JobIdLength == 16

\* the lines of message from its first line that contains JID_ on
RECURSIVE FirstJobIdLine(_)
FirstJobIdLine(lines) ==
    IF lines = <<>> THEN <<>>
    ELSE IF Contains(Head(lines), JobIdMarker) THEN lines
    ELSE FirstJobIdLine(Tail(lines))

\* parseJobId(message): err is "none", "parse" (no JID_ in the output) or
\* "panic" (the slice line[idx : idx+16] runs past the end of the line)
parseJobId(message) ==
    LET found == FirstJobIdLine(Split(message, "\n"))
    IN  IF found = <<>>
        THEN [jobId |-> "", err |-> "parse"]
        ELSE LET line == Head(found)
                 i == Index(line, JobIdMarker)
             IN  IF i + JobIdLength > Len(line)
                 THEN [jobId |-> "", err |-> "panic"]
                 ELSE [jobId |-> SubSeq(line, i + 1, i + JobIdLength), err |-> "none"]

PercentPrefix == "Percent Complete=["

\* regexp `Percent Complete=\[(\d+)\]`, FindStringSubmatch from offset i on:
\* the captured digits of the leftmost match, "" when there is no match
RECURSIVE FindPercentMatch(_, _)
FindPercentMatch(line, i) ==
    IF i + Len(PercentPrefix) > Len(line) THEN ""
    ELSE LET d == DigitRun(line, i + Len(PercentPrefix))
             after == i + Len(PercentPrefix) + Len(d)
         IN  IF /\ SubSeq(line, i + 1, i + Len(PercentPrefix)) = PercentPrefix
                /\ d # ""
                /\ after < Len(line)
                /\ SubSeq(line, after + 1, after + 1) = "]"
             THEN d
             ELSE FindPercentMatch(line, i + 1)

RECURSIVE FirstPercentLine(_)
FirstPercentLine(lines) ==
    IF lines = <<>> THEN <<>>
    ELSE IF HasPrefix(Head(lines), PercentPrefix) THEN lines
    ELSE FirstPercentLine(Tail(lines))

RECURSIVE FirstPercentLineAnywhere(_)
FirstPercentLineAnywhere(lines) ==
    IF lines = <<>> THEN <<>>
    ELSE IF Contains(Head(lines), PercentPrefix) THEN lines
    ELSE FirstPercentLineAnywhere(Tail(lines))

\* (mutation of parsePercentComplete: a line that holds the prefix anywhere is
\* taken, not only one that begins with it)
parsePercentCompleteAnywhere(message) ==
    LET found == FirstPercentLineAnywhere(Split(message, "\n"))
    IN  IF found = <<>>
        THEN [percentComplete |-> 0, err |-> TRUE]
        ELSE LET d == FindPercentMatch(Head(found), 0)
             IN  IF d = "" \/ Atoi(d).err
                 THEN [percentComplete |-> 0, err |-> TRUE]
                 ELSE [percentComplete |-> Atoi(d).value, err |-> FALSE]

\* parsePercentComplete(message)
parsePercentComplete(message) ==
    LET found == FirstPercentLine(Split(message, "\n"))
    IN  IF found = <<>>
        THEN [percentComplete |-> 0, err |-> TRUE]
        ELSE LET d == FindPercentMatch(Head(found), 0)
             IN  IF d = "" \/ Atoi(d).err
                 THEN [percentComplete |-> 0, err |-> TRUE]
                 ELSE [percentComplete |-> Atoi(d).value, err |-> FALSE]

----------------------------------------------------------------------------
(* racadm.go: the environment of ChangeBiosCfg *)

\* ctx.Deadline() at the call: none, or the seconds that remain until it
NoDeadline == [has |-> FALSE, remaining |-> 0]

Deadlines ==
    {NoDeadline} \cup
    {[has |-> TRUE, remaining |-> r] : r \in {timeout - tickerInterval, timeout,
                                             timeout + tickerInterval}}

\* (mutation of DeadlineInsufficient: a context without deadline passes the
\* check)
DeadlineInsufficientWhenSet(dl) == dl.has /\ dl.remaining < timeout

\* (mutation of DeadlineInsufficient: the remaining time is held against the
\* ticker interval, not against the overall timeout)
DeadlineInsufficientForOneTick(dl) ==
    IF dl.has THEN dl.remaining < tickerInterval ELSE TRUE

\* time.Until(d) < timeout; the zero Time of a context without deadline lies
\* in the past, so time.Until of it is negative
DeadlineInsufficient(dl) == IF dl.has THEN dl.remaining < timeout ELSE TRUE

JobViewHead == "---- JOB ----\n[Job ID=JID_000123456789]\nStatus=Running\n"

\* `racadm jobqueue view -i <jobID>` outputs: the job view with its progress
\* line at several values, malformed, or missing; and no output at all
StatusOutputs ==
    { JobViewHead \o "Percent Complete=[20]\n----",
      JobViewHead \o "Percent Complete=[100]\n----",
      JobViewHead \o "Percent Complete=[150]\n----",
      JobViewHead \o "Percent Complete=[invalid]\n----",
      JobViewHead \o "----",
      "" }

\* `racadm set -t xml -f <file>` outputs: the hint that names the job, an
\* output without job identifier, a hint cut short, and no output at all
SubmitOutputs ==
    { "RAC977: Import initiated.\nUse the \"racadm jobqueue view -i JID_000123456789\" command\nof the operation.",
      "RAC977: Import initiated.",
      "Use the \"racadm jobqueue view -i JID_0001",
      "" }

\* what Racadm.run returns: an error of the executor, or the command's output
RunResults(outputs) ==
    {[err |-> TRUE, out |-> ""]} \cup {[err |-> FALSE, out |-> o] : o \in outputs}

Unread == [err |-> "unread", out |-> "", percentComplete |-> 0]

\* no command has been run
NotRun == [err |-> FALSE, out |-> "not run"]

\* the state of the Job (section 4.3) that the position of ChangeBiosCfg and
\* its return value stand for
JobStatus ==
    CASE ppc = "idle" -> "NotSubmitted"
      [] ppc \in {"select", "query"} -> "Polling"
      [] ret = "nil" -> "Succeeded"
      [] ret \in {"exceeded maximum consecutive errors while waiting for job completion",
                  "exceeded maximum consecutive errors while parsing percent complete"}
            -> "Failed"
      [] ret = "timeout exceeded while waiting for job to complete" -> "TimedOut"
      [] ret = "context canceled while waiting for job completion" -> "Cancelled"
      [] OTHER -> "NotPolled"

\* the last n elements of q
LastN(q, n) == IF Len(q) <= n THEN q ELSE SubSeq(q, Len(q) - n + 1, Len(q))

----------------------------------------------------------------------------
(* racadm.go: ChangeBiosCfg *)

\* ChangeBiosCfg up to the poll loop: the deadline check, the submission and
\* parseJobId; the timeout timer and the ticker start
ChangeBiosCfg ==
    /\ ppc = "idle"
    \* called from outside the package, or by SetBiosConfigurationFromFile
    /\ spc \in {"idle", "changing"}
    /\ \E dl \in Deadlines, r \in RunResults(SubmitOutputs) :
         /\ deadline' = dl
         /\ IF DeadlineInsufficient(dl)
            THEN /\ ppc' = "returned"
                 /\ ret' = "remaining context deadline insufficient"
                 /\ UNCHANGED <<jobID, submitted, output>>
            ELSE
              /\ submitted' = submitted + 1
              /\ output' = r
              /\ IF r.err
                 THEN /\ ppc' = "returned"
                      /\ ret' = "failed to execute racadm set command"
                      /\ UNCHANGED jobID
                 ELSE LET p == parseJobId(r.out)
                      IN  IF p.err = "parse"
                          THEN /\ ppc' = "returned"
                               /\ ret' = "failed to parse JobID"
                               /\ UNCHANGED jobID
                          ELSE IF p.err = "panic"
                          THEN /\ ppc' = "returned"
                               /\ ret' = "panic: slice bounds out of range"
                               /\ UNCHANGED jobID
                          ELSE /\ ppc' = "select"
                               /\ jobID' = p.jobId
                               /\ UNCHANGED ret
    /\ UNCHANGED <<errorCount, jobCtxDone, timeoutReady, tickReady, now, lastRead, reads,
                   queries>>
    /\ UNCHANGED <<dvars, cvars, fvars, ivars, svars>>

\* nothing is ready for the loop to receive, or the loop is not in its select
EnvQuiet ==
    \/ ppc = "query"
    \/ (ppc = "select" /\ ~jobCtxDone /\ ~timeoutReady /\ ~tickReady)

\* ticks the ticker fires before the timeout timer, which was started first
TicksBeforeTimeout == (timeout - 1) \div tickerInterval

\* the caller cancels ctx, or its deadline passes
JobCtxCancel ==
    /\ ppc = "idle" \/ EnvQuiet
    /\ ~jobCtxDone
    /\ jobCtxDone' = TRUE
    /\ UNCHANGED <<ppc, ret, jobID, errorCount, timeoutReady, tickReady, now, submitted,
                   lastRead, reads, deadline, output, queries>>
    /\ UNCHANGED <<dvars, cvars, fvars, ivars, svars>>

\* tickerInterval passes: ticker.C receives a tick unless it still holds one
TickerFires ==
    /\ EnvQuiet
    /\ \/ now < TicksBeforeTimeout
       \/ (timeoutReady /\ now < TicksBeforeTimeout + MaxLateTicks)
    /\ now' = now + 1
    /\ tickReady' = TRUE
    /\ UNCHANGED <<ppc, ret, jobID, errorCount, jobCtxDone, timeoutReady, submitted,
                   lastRead, reads, deadline, output, queries>>
    /\ UNCHANGED <<dvars, cvars, fvars, ivars, svars>>

\* the overall timeout elapses: the time.After channel receives its value
TimeoutFires ==
    /\ EnvQuiet
    /\ ~timeoutReady
    /\ now = TicksBeforeTimeout
    /\ timeoutReady' = TRUE
    /\ UNCHANGED <<ppc, ret, jobID, errorCount, jobCtxDone, tickReady, now, submitted,
                   lastRead, reads, deadline, output, queries>>
    /\ UNCHANGED <<dvars, cvars, fvars, ivars, svars>>

\* select: case <-ctx.Done()
SelectCtxDone ==
    /\ ppc = "select"
    /\ jobCtxDone
    /\ ppc' = "returned"
    /\ ret' = "context canceled while waiting for job completion"
    /\ UNCHANGED <<jobID, errorCount, jobCtxDone, timeoutReady, tickReady, now, submitted,
                   lastRead, reads, deadline, output, queries>>
    /\ UNCHANGED <<dvars, cvars, fvars, ivars, svars>>

\* (mutation of SelectTimeout: the loop takes the value of the timeout channel
\* and goes on)
SelectTimeoutContinues ==
    /\ ppc = "select"
    /\ timeoutReady
    /\ timeoutReady' = FALSE
    /\ UNCHANGED <<ppc, ret, jobID, errorCount, jobCtxDone, tickReady, now, submitted,
                   lastRead, reads, deadline, output, queries>>
    /\ UNCHANGED <<dvars, cvars, fvars, ivars, svars>>

\* select: case <-timeout
SelectTimeout ==
    /\ ppc = "select"
    /\ timeoutReady
    /\ ppc' = "returned"
    /\ ret' = "timeout exceeded while waiting for job to complete"
    /\ UNCHANGED <<jobID, errorCount, jobCtxDone, timeoutReady, tickReady, now, submitted,
                   lastRead, reads, deadline, output, queries>>
    /\ UNCHANGED <<dvars, cvars, fvars, ivars, svars>>

\* (mutation of SelectTick: the tick is not taken from ticker.C)
SelectTickKeepsTick ==
    /\ ppc = "select"
    /\ tickReady
    /\ ppc' = "query"
    /\ queries' = queries + 1
    /\ UNCHANGED <<ret, jobID, errorCount, jobCtxDone, timeoutReady, tickReady, now, submitted,
                   lastRead, reads, deadline, output>>
    /\ UNCHANGED <<dvars, cvars, fvars, ivars, svars>>

\* select: case <-ticker.C, up to the call of GetJobQueue
SelectTick ==
    /\ ppc = "select"
    /\ tickReady
    /\ tickReady' = FALSE
    /\ ppc' = "query"
    /\ queries' = queries + 1
    /\ UNCHANGED <<ret, jobID, errorCount, jobCtxDone, timeoutReady, now, submitted,
                   lastRead, reads, deadline, output>>
    /\ UNCHANGED <<dvars, cvars, fvars, ivars, svars>>

\* parsePercentComplete on each output the status command can give
PercentOf == [o \in StatusOutputs |-> parsePercentComplete(o)]

\* (mutation of TickCase: any value of 100 or more ends the polling)
TickCaseAtLeast100(r) ==
    IF r.err
    THEN /\ errorCount' = errorCount + 1
         /\ lastRead' = [err |-> "transport", out |-> "", percentComplete |-> 0]
         /\ reads' = LastN(Append(reads, "transport"), maxErrors)
         /\ IF errorCount' >= maxErrors
            THEN /\ ppc' = "returned"
                 /\ ret' = "exceeded maximum consecutive errors while waiting for job completion"
            ELSE /\ ppc' = "select"
                 /\ UNCHANGED ret
    ELSE LET p == PercentOf[r.out]
         IN  IF p.err
             THEN /\ errorCount' = errorCount + 1
                  /\ lastRead' = [err |-> "parse", out |-> r.out, percentComplete |-> 0]
                  /\ reads' = LastN(Append(reads, "parse"), maxErrors)
                  /\ IF errorCount' >= maxErrors
                     THEN /\ ppc' = "returned"
                          /\ ret' = "exceeded maximum consecutive errors while parsing percent complete"
                     ELSE /\ ppc' = "select"
                          /\ UNCHANGED ret
             ELSE /\ errorCount' = 0
                  /\ lastRead' = [err |-> "none", out |-> r.out,
                                  percentComplete |-> p.percentComplete]
                  /\ reads' = LastN(Append(reads, "ok"), maxErrors)
                  /\ IF p.percentComplete >= 100
                     THEN /\ ppc' = "returned"
                          /\ ret' = "nil"
                     ELSE /\ ppc' = "select"
                          /\ UNCHANGED ret

\* (mutation of TickCase: a successful read leaves errorCount as it is)
TickCaseNoReset(r) ==
    IF r.err
    THEN /\ errorCount' = errorCount + 1
         /\ lastRead' = [err |-> "transport", out |-> "", percentComplete |-> 0]
         /\ reads' = LastN(Append(reads, "transport"), maxErrors)
         /\ IF errorCount' >= maxErrors
            THEN /\ ppc' = "returned"
                 /\ ret' = "exceeded maximum consecutive errors while waiting for job completion"
            ELSE /\ ppc' = "select"
                 /\ UNCHANGED ret
    ELSE LET p == PercentOf[r.out]
         IN  IF p.err
             THEN /\ errorCount' = errorCount + 1
                  /\ lastRead' = [err |-> "parse", out |-> r.out, percentComplete |-> 0]
                  /\ reads' = LastN(Append(reads, "parse"), maxErrors)
                  /\ IF errorCount' >= maxErrors
                     THEN /\ ppc' = "returned"
                          /\ ret' = "exceeded maximum consecutive errors while parsing percent complete"
                     ELSE /\ ppc' = "select"
                          /\ UNCHANGED ret
             ELSE /\ errorCount' = errorCount
                  /\ lastRead' = [err |-> "none", out |-> r.out,
                                  percentComplete |-> p.percentComplete]
                  /\ reads' = LastN(Append(reads, "ok"), maxErrors)
                  /\ IF p.percentComplete = 100
                     THEN /\ ppc' = "returned"
                          /\ ret' = "nil"
                     ELSE /\ ppc' = "select"
                          /\ UNCHANGED ret

\* the rest of the tick case: GetJobQueue returns r
TickCase(r) ==
    IF r.err
    THEN /\ errorCount' = errorCount + 1
         /\ lastRead' = [err |-> "transport", out |-> "", percentComplete |-> 0]
         /\ reads' = LastN(Append(reads, "transport"), maxErrors)
         /\ IF errorCount' >= maxErrors
            THEN /\ ppc' = "returned"
                 /\ ret' = "exceeded maximum consecutive errors while waiting for job completion"
            ELSE /\ ppc' = "select"
                 /\ UNCHANGED ret
    ELSE LET p == PercentOf[r.out]
         IN  IF p.err
             THEN /\ errorCount' = errorCount + 1
                  /\ lastRead' = [err |-> "parse", out |-> r.out, percentComplete |-> 0]
                  /\ reads' = LastN(Append(reads, "parse"), maxErrors)
                  /\ IF errorCount' >= maxErrors
                     THEN /\ ppc' = "returned"
                          /\ ret' = "exceeded maximum consecutive errors while parsing percent complete"
                     ELSE /\ ppc' = "select"
                          /\ UNCHANGED ret
             ELSE /\ errorCount' = 0
                  /\ lastRead' = [err |-> "none", out |-> r.out,
                                  percentComplete |-> p.percentComplete]
                  /\ reads' = LastN(Append(reads, "ok"), maxErrors)
                  /\ IF p.percentComplete = 100
                     THEN /\ ppc' = "returned"
                          /\ ret' = "nil"
                     ELSE /\ ppc' = "select"
                          /\ UNCHANGED ret

GetJobQueueReturns ==
    /\ ppc = "query"
    /\ \E r \in RunResults(StatusOutputs) : TickCase(r)
    /\ UNCHANGED <<jobID, jobCtxDone, timeoutReady, tickReady, now, submitted, deadline,
                   output, queries>>
    /\ UNCHANGED <<dvars, cvars, fvars, ivars, svars>>

----------------------------------------------------------------------------
(* racadm.go: SetBiosConfigurationFromFile *)

\* how far SetBiosConfigurationFromFile gets with its scratch file
ScratchOutcomes == {"create failed", "write failed", "close failed", "closed"}

\* os.Remove(inputConfigTmpFile.Name()), for the file in state f
osRemove(f) == IF f = "exists" THEN "removed" ELSE f

\* SetBiosConfigurationFromFile up to its call of ChangeBiosCfg: os.CreateTemp,
\* the deferral of os.Remove, WriteString and Close; a return after the
\* deferral runs os.Remove
SetBiosConfigurationFromFile ==
    /\ spc = "idle"
    /\ ppc = "idle"
    /\ \E outcome \in ScratchOutcomes :
         CASE outcome = "create failed" ->
                /\ spc' = "returned"
                /\ sret' = "create failed"
                /\ UNCHANGED tmpFile
           [] outcome \in {"write failed", "close failed"} ->
                /\ spc' = "returned"
                /\ sret' = outcome
                /\ tmpFile' = osRemove("exists")
           [] outcome = "closed" ->
                /\ spc' = "changing"
                /\ tmpFile' = "exists"
                /\ UNCHANGED sret
    /\ UNCHANGED <<executorArgs, runs>>
    /\ UNCHANGED <<dvars, pvars, cvars, fvars, ivars>>

\* (mutation of SetBiosConfigurationFromFileReturns: os.Remove is not deferred)
SetBiosConfigurationFromFileLeavesFile ==
    /\ spc = "changing"
    /\ ppc = "returned"
    /\ spc' = "returned"
    /\ sret' = ret
    /\ UNCHANGED tmpFile
    /\ UNCHANGED <<executorArgs, runs>>
    /\ UNCHANGED <<dvars, pvars, cvars, fvars, ivars>>

\* return s.ChangeBiosCfg(ctx, inputConfigTmpFile.Name()): ChangeBiosCfg has
\* returned (or panicked); the deferred os.Remove runs and
\* SetBiosConfigurationFromFile returns what ChangeBiosCfg returned
SetBiosConfigurationFromFileReturns ==
    /\ spc = "changing"
    /\ ppc = "returned"
    /\ spc' = "returned"
    /\ sret' = ret
    /\ tmpFile' = osRemove(tmpFile)
    /\ UNCHANGED <<executorArgs, runs>>
    /\ UNCHANGED <<dvars, pvars, cvars, fvars, ivars>>

----------------------------------------------------------------------------
(* racadm.go: Racadm.run, invoked by GetJobQueue calls that overlap *)

Invocations == 1..MaxInvocations

\* the jobs whose queue entry is asked for
JobIds == {"JID_000000000001", "JID_000000000002", "JID_000000000003"}

\* run: racadmArgs, the fixed arguments of the instance followed by the
\* command and its additional arguments
racadmArgs(command, additionalArgs) ==
    <<"-r", "10.0.0.1", "-u", "root", "-p", "calvin", "--nocertwarn", command>>
        \o additionalArgs

NoRun == [pc |-> "idle", jobID |-> "", args |-> <<>>, executed |-> <<>>]

\* GetJobQueue(ctx, jobID) up to the call of s.Executor.SetArgs in run: run
\* has built racadmArgs for "jobqueue", "view", "-i", jobID
GetJobQueue ==
    \E n \in Invocations, id \in JobIds :
        /\ runs[n].pc = "idle"
        /\ runs' = [runs EXCEPT ![n] = [pc |-> "SetArgs", jobID |-> id,
                                        args |-> racadmArgs("jobqueue", <<"view", "-i", id>>),
                                        executed |-> <<>>]]
        /\ UNCHANGED <<spc, tmpFile, sret, executorArgs>>
        /\ UNCHANGED <<dvars, pvars, cvars, fvars, ivars>>

\* run: s.Executor.SetArgs(racadmArgs); the one Executor of the instance holds
\* the argument list handed to it last
SetArgs ==
    \E n \in Invocations :
        /\ runs[n].pc = "SetArgs"
        /\ executorArgs' = runs[n].args
        /\ runs' = [runs EXCEPT ![n].pc = "ExecWithContext"]
        /\ UNCHANGED <<spc, tmpFile, sret>>
        /\ UNCHANGED <<dvars, pvars, cvars, fvars, ivars>>

\* run: s.Executor.ExecWithContext(ctx); it is handed no arguments and
\* executes the command with the argument list the Executor holds
ExecWithContext ==
    \E n \in Invocations :
        /\ runs[n].pc = "ExecWithContext"
        /\ runs' = [runs EXCEPT ![n].pc = "returned", ![n].executed = executorArgs]
        /\ UNCHANGED <<spc, tmpFile, sret, executorArgs>>
        /\ UNCHANGED <<dvars, pvars, cvars, fvars, ivars>>

InitRacadm ==
    /\ ppc = "idle"
    /\ ret = "none"
    /\ jobID = ""
    /\ errorCount = 0
    /\ jobCtxDone = FALSE
    /\ timeoutReady = FALSE
    /\ tickReady = FALSE
    /\ now = 0
    /\ submitted = 0
    /\ lastRead = Unread
    /\ reads = <<>>
    /\ deadline = NoDeadline
    /\ output = NotRun
    /\ queries = 0

----------------------------------------------------------------------------
(* idrac8: escapeLdapString *)

\* (mutation of EscapedChar: the comma is left as it is)
EscapedCharEqualsOnly(c) == IF c = "=" THEN "%5C%3D" ELSE c

\* what the loop body appends to r for the character c
EscapedChar(c) ==
    IF c = "=" THEN "%5C%3D"
    ELSE IF c = "," THEN "%5C%2C"
    ELSE c

\* escapeLdapString(s): what the loop appends for each character of s, in
\* order (evaluated by halves of s)
RECURSIVE escapeLdapString(_)
escapeLdapString(s) ==
    IF Len(s) = 0 THEN ""
    ELSE IF Len(s) = 1 THEN EscapedChar(s)
    ELSE escapeLdapString(SubSeq(s, 1, Len(s) \div 2))
            \o escapeLdapString(SubSeq(s, Len(s) \div 2 + 1, Len(s)))

----------------------------------------------------------------------------
(* idrac8: the vendor calls of the configuration adapters *)

\* strconv.Itoa / %d, for n >= 0
RECURSIVE Itoa(_)
Itoa(n) ==
    LET digit == CASE n % 10 = 0 -> "0" [] n % 10 = 1 -> "1" [] n % 10 = 2 -> "2"
                   [] n % 10 = 3 -> "3" [] n % 10 = 4 -> "4" [] n % 10 = 5 -> "5"
                   [] n % 10 = 6 -> "6" [] n % 10 = 7 -> "7" [] n % 10 = 8 -> "8"
                   [] n % 10 = 9 -> "9"
    IN  IF n < 10 THEN digit ELSE Itoa(n \div 10) \o digit

\* the error of a request that got no response
TransportError == "dial tcp: i/o timeout"

\* what i.get, i.post and i.put hand back: the error of the transport, or no
\* error and the status code of the response (bodyOk: the body is the JSON
\* the caller expects)
Responses ==
    { [err |-> TransportError, status |-> 0, bodyOk |-> FALSE],
      [err |-> "", status |-> 200, bodyOk |-> TRUE],
      [err |-> "", status |-> 201, bodyOk |-> TRUE],
      [err |-> "", status |-> 201, bodyOk |-> FALSE],
      [err |-> "", status |-> 500, bodyOk |-> TRUE] }

\* the response of a call that is in flight
Pending == [err |-> "", status |-> -1, bodyOk |-> FALSE]

Request(method, endpoint, payload) ==
    [method |-> method, endpoint |-> endpoint, payload |-> payload, response |-> Pending]

NoLocals == [step |-> "", groupID |-> 1, next |-> 1, groupPrivilegeParam |-> ""]

\* the log of vendor calls with the response r to the call in flight
Answered(r) == [http EXCEPT ![Len(http)].response = r]

\* the adapter issues the request req after the calls in log; loc are its locals
Send(log, req, loc) ==
    /\ http' = Append(log, req)
    /\ apc' = "waiting"
    /\ locals' = loc
    /\ UNCHANGED <<aerr, areset>>

\* the adapter returns (reset, e) after the calls in log
Return(log, e, reset) ==
    /\ http' = log
    /\ apc' = "returned"
    /\ aerr' = e
    /\ areset' = reset
    /\ UNCHANGED locals

\* err != nil || statusCode != expected
CallFailed(r, expected) == r.err # "" \/ r.status # expected

\* if err == nil { err = fmt.Errorf("Received a non-200 status code from the
\* GET request to %s.", endpoint) }
Non200Error(r, endpoint) ==
    IF r.err = ""
    THEN "Received a non-200 status code from the GET request to " \o endpoint \o "."
    ELSE r.err

----------------------------------------------------------------------------
(* idrac8: Syslog and Ntp *)

SyslogCfgs == [Server : {"", "syslog.example.com"}, Port : {0, 6514}, Enable : BOOLEAN]

SetAlertFilterPayload == "alertFilter"

\* IDrac8.Syslog(cfg), up to its first vendor call
Syslog ==
    /\ apc = "idle"
    /\ adapter' = "Syslog"
    /\ \E cfg \in SyslogCfgs :
         /\ config' = cfg
         /\ IF cfg.Server = ""
            THEN Return(<<>>, "nil", FALSE)
            ELSE LET port == IF cfg.Port = 0 THEN 514 ELSE cfg.Port
                     enable == IF cfg.Enable THEN "Enabled" ELSE "Disabled"
                     payload == "{\"iDRAC.SysLog\":{\"Port\":\"" \o Itoa(port)
                                    \o "\",\"Server1\":\"" \o cfg.Server
                                    \o "\",\"Enable\":\"" \o enable \o "\"}}"
                 IN  Send(<<>>, Request("PUT", "sysmgmt/2012/server/configgroup/iDRAC.SysLog",
                                        payload),
                          [NoLocals EXCEPT !.step = "syslog"])
    /\ UNCHANGED <<dvars, pvars, cvars, fvars, svars>>

\* IDrac8.Syslog(cfg), from the response to a vendor call on: only the error
\* of the transport is looked at
SyslogContinue ==
    /\ adapter = "Syslog"
    /\ apc = "waiting"
    /\ \E r \in Responses :
         IF r.err # ""
         THEN Return(Answered(r), r.err, FALSE)
         ELSE CASE locals.step = "syslog" ->
                     Send(Answered(r), Request("POST", "data?set=alertStatus:1", ""),
                          [locals EXCEPT !.step = "alerts"])
                [] locals.step = "alerts" ->
                     Send(Answered(r),
                          Request("POST", "data?set=" \o SetAlertFilterPayload, ""),
                          [locals EXCEPT !.step = "filters"])
                [] locals.step = "filters" ->
                     Return(Answered(r), "nil", FALSE)
    /\ UNCHANGED <<adapter, config>>
    /\ UNCHANGED <<dvars, pvars, cvars, fvars, svars>>

NtpCfgs ==
    [Server1 : {"", "ntp0.example.com"}, Server2 : {"ntp1.example.com"}, Server3 : {""},
     Timezone : {"", "CET"}, Enable : BOOLEAN]

\* applyNtpServerParam: the request it sends
NtpServerRequest(cfg) ==
    Request("GET",
            "data?set=tm_ntp_int_opmode:" \o (IF cfg.Enable THEN "1" ELSE "0") \o ","
                \o "tm_ntp_str_server1:" \o cfg.Server1 \o ","
                \o "tm_ntp_str_server2:" \o cfg.Server2 \o ","
                \o "tm_ntp_str_server3:" \o cfg.Server3 \o ",",
            "")

\* IDrac8.Ntp(cfg), up to the vendor call of applyTimezoneParam
Ntp ==
    /\ apc = "idle"
    /\ adapter' = "Ntp"
    /\ \E cfg \in NtpCfgs :
         /\ config' = cfg
         /\ IF cfg.Server1 = "" \/ cfg.Timezone = ""
            THEN Return(<<>>, "nil", FALSE)
            ELSE Send(<<>>, Request("GET", "data?set=tm_tz_str_zone:" \o cfg.Timezone, ""),
                      [NoLocals EXCEPT !.step = "timezone"])
    /\ UNCHANGED <<dvars, pvars, cvars, fvars, svars>>

\* IDrac8.Ntp(cfg), from the response to a vendor call on: applyTimezoneParam
\* and applyNtpServerParam log a failed call and return nothing
NtpContinue ==
    /\ adapter = "Ntp"
    /\ apc = "waiting"
    /\ \E r \in Responses :
         CASE locals.step = "timezone" ->
                Send(Answered(r), NtpServerRequest(config),
                     [locals EXCEPT !.step = "servers"])
           [] locals.step = "servers" ->
                Return(Answered(r), "nil", FALSE)
    /\ UNCHANGED <<adapter, config>>
    /\ UNCHANGED <<dvars, pvars, cvars, fvars, svars>>

----------------------------------------------------------------------------
(* idrac8: Ldap and LdapGroups *)

CompleteLdap ==
    [Server |-> "ldap.example.com", SearchFilter |-> "objectClass=posixAccount",
     Port |-> 636, BaseDn |-> "ou=People,dc=example,dc=com", UserAttribute |-> "uid",
     GroupAttribute |-> "memberUid", BindDn |-> ""]

\* the LDAP configurations: complete, or with one parameter not declared
LdapCfgs ==
    { CompleteLdap,
      [CompleteLdap EXCEPT !.BindDn = "cn=bind,dc=example,dc=com"],
      [CompleteLdap EXCEPT !.Server = ""],
      [CompleteLdap EXCEPT !.SearchFilter = ""],
      [CompleteLdap EXCEPT !.Port = 0],
      [CompleteLdap EXCEPT !.BaseDn = ""],
      [CompleteLdap EXCEPT !.UserAttribute = ""],
      [CompleteLdap EXCEPT !.GroupAttribute = ""] }

LdapServerEndpoint(cfg) == "data?set=xGLServer:" \o cfg.Server

LdapSearchFilterEndpoint(cfg) ==
    "data?set=xGLSearchFilter:" \o escapeLdapString(cfg.SearchFilter)

\* IDrac8.Ldap(cfg), up to its first vendor call
Ldap ==
    /\ apc = "idle"
    /\ adapter' = "Ldap"
    /\ \E cfg \in LdapCfgs :
         /\ config' = cfg
         /\ IF cfg.Server = ""
            THEN Return(<<>>, "LDAP resource parameter \"Server\" required but not declared.",
                        FALSE)
            ELSE Send(<<>>, Request("GET", LdapServerEndpoint(cfg), ""),
                      [NoLocals EXCEPT !.step = "server"])
    /\ UNCHANGED <<dvars, pvars, cvars, fvars, svars>>

\* IDrac8.Ldap(cfg), from the response to a vendor call on; after the server
\* is set, applyLdapSearchFilterParam checks cfg.SearchFilter
LdapContinue ==
    /\ adapter = "Ldap"
    /\ apc = "waiting"
    /\ \E r \in Responses :
         CASE locals.step = "server" ->
                IF CallFailed(r, 200)
                THEN Return(Answered(r), Non200Error(r, LdapServerEndpoint(config)), FALSE)
                ELSE IF config.SearchFilter = ""
                THEN Return(Answered(r),
                            "Ldap resource parameter SearchFilter required but not declared.",
                            FALSE)
                ELSE Send(Answered(r), Request("GET", LdapSearchFilterEndpoint(config), ""),
                          [locals EXCEPT !.step = "filter"])
           [] locals.step = "filter" ->
                IF CallFailed(r, 200)
                THEN Return(Answered(r), Non200Error(r, LdapSearchFilterEndpoint(config)),
                            FALSE)
                ELSE Return(Answered(r), "nil", FALSE)
    /\ UNCHANGED <<adapter, config>>
    /\ UNCHANGED <<dvars, pvars, cvars, fvars, svars>>

GroupBaseDn == "ou=Group,dc=example,dc=com"

\* the entries of a list of LDAP groups: valid ones, a disabled one, and ones
\* with a parameter not declared or not valid
GroupCfgs ==
    { [Enable |-> TRUE, Role |-> "admin", Group |-> "cn=admins", GroupBaseDn |-> GroupBaseDn],
      [Enable |-> TRUE, Role |-> "user", Group |-> "cn=users", GroupBaseDn |-> GroupBaseDn],
      [Enable |-> FALSE, Role |-> "admin", Group |-> "cn=former", GroupBaseDn |-> GroupBaseDn],
      [Enable |-> TRUE, Role |-> "", Group |-> "cn=guests", GroupBaseDn |-> GroupBaseDn],
      [Enable |-> TRUE, Role |-> "admin", Group |-> "", GroupBaseDn |-> GroupBaseDn],
      [Enable |-> TRUE, Role |-> "user", Group |-> "cn=users", GroupBaseDn |-> ""],
      [Enable |-> TRUE, Role |-> "root", Group |-> "cn=wheel", GroupBaseDn |-> GroupBaseDn] }

\* the lists of valid groups longer than MaxGroups: administrators and users
\* in turn, each group under a name of its own
ValidGroupLists ==
    { [k \in 1..n |->
          [Enable |-> TRUE,
           Role |-> IF k % 2 = 1 THEN "admin" ELSE "user",
           Group |-> "cn=team" \o Itoa(k),
           GroupBaseDn |-> GroupBaseDn]] : n \in (MaxGroups + 1)..MaxValidGroups }

GroupLists == UNION {[1..n -> GroupCfgs] : n \in 0..MaxGroups} \cup ValidGroupLists

\* internal.IsRoleValid
IsRoleValid(role) == role \in {"admin", "user"}

\* the first group from position k on that the loop does not skip (one that
\* is enabled and declares a Role); past the end when there is none
RECURSIVE NextGroup(_, _)
NextGroup(cfgGroups, k) ==
    IF k > Len(cfgGroups) THEN k
    ELSE IF ~cfgGroups[k].Enable \/ cfgGroups[k].Role = "" THEN NextGroup(cfgGroups, k + 1)
    ELSE k

GroupNameEndpoint(groupID, group) ==
    "data?set=xGLGroup" \o Itoa(groupID) \o "Name:"
        \o escapeLdapString(group.Group \o "," \o group.GroupBaseDn)

\* for i := groupID; i <= 5; i++ { groupPrivilegeParam += "xGLGroup%dPriv:0," }
RECURSIVE RestOfPrivileges(_)
RestOfPrivileges(i) ==
    IF i <= 5 THEN "xGLGroup" \o Itoa(i) \o "Priv:0," \o RestOfPrivileges(i + 1) ELSE ""

\* applyLdapRoleGroupPrivParam: the request it sends
LdapConfRequest(cfg, groupPrivilegeParam) ==
    Request("POST", "postset?ldapconf",
            "data=LDAPEnableMode:3,"
                \o "xGLNameSearchEnabled:0,"
                \o "xGLBaseDN:" \o escapeLdapString(cfg.BaseDn) \o ","
                \o "xGLUserLogin:" \o cfg.UserAttribute \o ","
                \o "xGLGroupMem:" \o cfg.GroupAttribute \o ","
                \o (IF cfg.BindDn # "" THEN "xGLBindDN:" \o escapeLdapString(cfg.BindDn) \o ","
                    ELSE "xGLBindDN:,")
                \o "xGLCertValidationEnabled:0,"
                \o groupPrivilegeParam
                \o "xGLServerPort:" \o Itoa(cfg.Port))

\* the loop over cfgGroups from position loc.next on, up to the next vendor
\* call or return; after the loop the privileges of the remaining slots are
\* set to 0 and applyLdapRoleGroupPrivParam is called
LdapGroupsLoop(cfgGroups, cfgLdap, log, loc) ==
    LET k == NextGroup(cfgGroups, loc.next)
    IN  IF k > Len(cfgGroups)
        THEN Send(log,
                  LdapConfRequest(cfgLdap, loc.groupPrivilegeParam
                                               \o RestOfPrivileges(loc.groupID)),
                  [loc EXCEPT !.step = "ldapconf", !.next = k])
        ELSE IF cfgGroups[k].Group = ""
        THEN Return(log, "LDAP resource parameter \"Group\" is required!", FALSE)
        ELSE IF cfgGroups[k].GroupBaseDn = ""
        THEN Return(log, "LDAP resource parameter \"GroupBaseDn\" is required!", FALSE)
        ELSE IF ~IsRoleValid(cfgGroups[k].Role)
        THEN Return(log, "LDAP resource parameter \"Role\" must be a valid role: \"admin\" OR \"user\".",
                    FALSE)
        ELSE Send(log, Request("GET", GroupNameEndpoint(loc.groupID, cfgGroups[k]), ""),
                  [loc EXCEPT !.step = "group", !.next = k])

\* IDrac8.LdapGroups(cfgGroups, cfgLdap), up to its first vendor call
LdapGroups ==
    /\ apc = "idle"
    /\ adapter' = "LdapGroups"
    /\ \E cfgGroups \in GroupLists, cfgLdap \in LdapCfgs :
         /\ config' = [cfgGroups |-> cfgGroups, cfgLdap |-> cfgLdap]
         /\ IF cfgLdap.Port = 0
            THEN Return(<<>>, "LDAP resource parameter \"Port\" is required!", FALSE)
            ELSE IF cfgLdap.BaseDn = ""
            THEN Return(<<>>, "LDAP resource parameter \"BaseDn\" is required!", FALSE)
            ELSE IF cfgLdap.UserAttribute = ""
            THEN Return(<<>>, "LDAP resource parameter \"userAttribute\" is required!", FALSE)
            ELSE IF cfgLdap.GroupAttribute = ""
            THEN Return(<<>>, "LDAP resource parameter \"groupAttribute\" is required!", FALSE)
            ELSE LdapGroupsLoop(cfgGroups, cfgLdap, <<>>, NoLocals)
    /\ UNCHANGED <<dvars, pvars, cvars, fvars, svars>>

\* IDrac8.LdapGroups, from the response to a vendor call on
LdapGroupsContinue ==
    /\ adapter = "LdapGroups"
    /\ apc = "waiting"
    /\ \E r \in Responses :
         CASE locals.step = "group" ->
                LET group == config.cfgGroups[locals.next]
                    privID == IF group.Role = "user" THEN "497" ELSE "511"
                IN  IF CallFailed(r, 200)
                    THEN Return(Answered(r),
                                Non200Error(r, GroupNameEndpoint(locals.groupID, group)),
                                FALSE)
                    ELSE LdapGroupsLoop(config.cfgGroups, config.cfgLdap, Answered(r),
                            [locals EXCEPT
                                !.groupPrivilegeParam =
                                    @ \o "xGLGroup" \o Itoa(locals.groupID) \o "Priv:"
                                      \o privID \o ",",
                                !.groupID = @ + 1,
                                !.next = @ + 1])
           [] locals.step = "ldapconf" ->
                \* if err != nil || responseCode != 200 { ...; return err }
                Return(Answered(r), IF r.err = "" THEN "nil" ELSE r.err, FALSE)
    /\ UNCHANGED <<adapter, config>>
    /\ UNCHANGED <<dvars, pvars, cvars, fvars, svars>>

----------------------------------------------------------------------------
(* idrac8: User *)

\* the entries of a list of users: an administrator and an operator, each to
\* be enabled or disabled, and an entry without a Name
UserCfgs ==
    { [Name |-> "root", Password |-> "calvin", Role |-> "admin", Enable |-> TRUE],
      [Name |-> "root", Password |-> "calvin", Role |-> "admin", Enable |-> FALSE],
      [Name |-> "ops", Password |-> "secret", Role |-> "user", Enable |-> TRUE],
      [Name |-> "ops", Password |-> "secret", Role |-> "user", Enable |-> FALSE],
      [Name |-> "", Password |-> "secret", Role |-> "user", Enable |-> TRUE] }

UserLists == UNION {[1..n -> UserCfgs] : n \in 0..MaxUsers}

\* internal.ValidateUserConfig: the error it returns ("nil": none)
ValidateUserConfig(cfgUsers) ==
    IF \E k \in 1..Len(cfgUsers) : cfgUsers[k].Name = ""
    THEN "User resource expects parameter: Name."
    ELSE IF \E k \in 1..Len(cfgUsers) : cfgUsers[k].Password = ""
    THEN "User resource expects parameter: Password."
    ELSE IF \E k \in 1..Len(cfgUsers) : ~IsRoleValid(cfgUsers[k].Role)
    THEN "User resource expects parameter Role to be one of 'admin', 'user'"
    ELSE "nil"

\* the user tables a device may hold: the name in each slot ("": the slot is
\* empty; "guest" is a user that no list of users names), no name in two slots
UserTables ==
    {t \in [1..MaxSlots -> {"", "root", "ops", "guest"}] :
        \A a, b \in 1..MaxSlots : (a # b /\ t[a] # "") => t[a] # t[b]}

\* userInIdrac: the slot that holds the user name (0: uExists is false)
userInIdrac(name, idracUsers) ==
    IF \E slot \in DOMAIN idracUsers : idracUsers[slot] = name
    THEN CHOOSE slot \in DOMAIN idracUsers : idracUsers[slot] = name
    ELSE 0

\* getEmptyUserSlot: the first slot without a user name (0: there is none,
\* an error is returned)
getEmptyUserSlot(idracUsers) ==
    IF \E slot \in DOMAIN idracUsers : idracUsers[slot] = ""
    THEN CHOOSE slot \in DOMAIN idracUsers :
            /\ idracUsers[slot] = ""
            /\ \A other \in DOMAIN idracUsers : idracUsers[other] = "" => slot <= other
    ELSE 0

NoEmptySlotError == "All user account slots in use, remove an account before adding a new one."

UserLocals == [step |-> "", next |-> 1, err |-> "nil", idracUsers |-> <<>>]

\* the loop over cfgUsers from position k on, while no vendor call is made:
\* the position of the next user that putUser is called for (past the end when
\* there is none) and the value of err there
RECURSIVE UserLoop(_, _, _, _)
UserLoop(cfgUsers, idracUsers, k, err) ==
    IF k > Len(cfgUsers) THEN [next |-> k, err |-> err]
    ELSE LET cfgUser == cfgUsers[k]
             uExists == userInIdrac(cfgUser.Name, idracUsers) # 0
         IN  IF cfgUser.Enable
             THEN IF ~uExists /\ getEmptyUserSlot(idracUsers) = 0
                  THEN UserLoop(cfgUsers, idracUsers, k + 1, NoEmptySlotError)
                  ELSE [next |-> k, err |-> IF uExists THEN err ELSE "nil"]
             ELSE IF uExists
                  THEN [next |-> k, err |-> err]
                  ELSE UserLoop(cfgUsers, idracUsers, k + 1, err)

\* i.putUser(userID, userInfo): the request it sends
PutUserRequest(cfgUser, idracUsers) ==
    LET uExists == userInIdrac(cfgUser.Name, idracUsers) # 0
        userID == IF uExists THEN userInIdrac(cfgUser.Name, idracUsers)
                  ELSE getEmptyUserSlot(idracUsers)
        userInfo ==
            IF cfgUser.Enable
            THEN "{\"Enable\":\"Enabled\",\"SolEnable\":\"Enabled\",\"UserName\":\""
                    \o cfgUser.Name \o "\",\"Password\":\"" \o cfgUser.Password
                    \o (IF cfgUser.Role = "admin"
                        THEN "\",\"Privilege\":\"511\",\"IpmiLanPrivilege\":\"Administrator\"}"
                        ELSE "\",\"Privilege\":\"499\",\"IpmiLanPrivilege\":\"Operator\"}")
            ELSE "{\"Enable\":\"Disabled\",\"SolEnable\":\"Disabled\",\"UserName\":\""
                    \o cfgUser.Name
                    \o "\",\"Privilege\":\"0\",\"IpmiLanPrivilege\":\"No Access\"}"
    IN  Request("PUT", "sysmgmt/2012/server/configgroup/iDRAC.Users." \o Itoa(userID),
                userInfo)

\* i.putUser(userID, userInfo): the error it returns for the response r to
\* its request ("nil": none)
putUserError(r) ==
    IF r.err # "" THEN r.err
    ELSE IF r.status # 200 THEN "PUT request to set User config returned error."
    ELSE "nil"

\* the walk over cfgUsers from position loc.next on with err as loc.err, up to
\* the next vendor call or to the return of err after the last user
UserWalk(cfgUsers, log, loc) ==
    LET at == UserLoop(cfgUsers, loc.idracUsers, loc.next, loc.err)
    IN  IF at.next > Len(cfgUsers)
        THEN /\ http' = log
             /\ apc' = "returned"
             /\ aerr' = at.err
             /\ areset' = FALSE
             /\ locals' = [loc EXCEPT !.step = "done", !.next = at.next, !.err = at.err]
        ELSE Send(log, PutUserRequest(cfgUsers[at.next], loc.idracUsers),
                  [loc EXCEPT !.step = "put", !.next = at.next, !.err = at.err])

\* IDrac8.User(cfgUsers), up to the vendor call of queryUsers
User ==
    /\ apc = "idle"
    /\ adapter' = "User"
    /\ \E cfgUsers \in UserLists :
         /\ config' = cfgUsers
         /\ IF ValidateUserConfig(cfgUsers) # "nil"
            THEN Return(<<>>, "User config validation failed: " \o ValidateUserConfig(cfgUsers),
                        FALSE)
            ELSE Send(<<>>, Request("GET", "sysmgmt/2012/server/configgroup/iDRAC.Users", ""),
                      [UserLocals EXCEPT !.step = "query"])
    /\ UNCHANGED <<dvars, pvars, cvars, fvars, svars>>

\* IDrac8.User(cfgUsers), from the response to a vendor call on: queryUsers
\* hands back the user table of the device, putUser its error
UserContinue ==
    /\ adapter = "User"
    /\ apc = "waiting"
    /\ \E r \in Responses :
         CASE locals.step = "query" ->
                IF CallFailed(r, 200)
                THEN Return(Answered(r), "Unable to query existing users.", FALSE)
                ELSE \E idracUsers \in UserTables :
                        UserWalk(config, Answered(r),
                                 [locals EXCEPT !.idracUsers = idracUsers])
           [] locals.step = "put" ->
                UserWalk(config, Answered(r),
                         [locals EXCEPT
                             !.next = @ + 1,
                             !.err = putUserError(r)])
    /\ UNCHANGED <<adapter, config>>
    /\ UNCHANGED <<dvars, pvars, cvars, fvars, svars>>

----------------------------------------------------------------------------
(* idrac8: Network and UploadHTTPSCert *)

NetworkCfgs == [DNSFromDHCP : BOOLEAN, IpmiEnable : BOOLEAN, SolEnable : BOOLEAN]

Flag(b) == IF b THEN "1" ELSE "0"

\* IDrac8.Network(cfg), up to its vendor call
Network ==
    /\ apc = "idle"
    /\ adapter' = "Network"
    /\ \E cfg \in NetworkCfgs :
         /\ config' = cfg
         /\ Send(<<>>,
                 Request("POST", "data?set",
                         "dhcpForDNSDomain:" \o Flag(cfg.DNSFromDHCP) \o ","
                             \o "ipmiLAN:" \o Flag(cfg.IpmiEnable) \o ","
                             \o "serialOverLanEnabled:" \o Flag(cfg.SolEnable) \o ","
                             \o "serialOverLanBaud:3,"
                             \o "serialOverLanPriv:0,"
                             \o "racRedirectEna:" \o Flag(cfg.SolEnable) \o ","
                             \o "racEscKey:^\\\\"),
                 [NoLocals EXCEPT !.step = "network"])
    /\ UNCHANGED <<dvars, pvars, cvars, fvars, svars>>

\* IDrac8.Network(cfg), from the response on: if err != nil || responseCode
\* != 200 { ...; return reset, err }, and return reset, err after it
NetworkContinue ==
    /\ adapter = "Network"
    /\ apc = "waiting"
    /\ \E r \in Responses :
         Return(Answered(r), IF r.err = "" THEN "nil" ELSE r.err, FALSE)
    /\ UNCHANGED <<adapter, config>>
    /\ UNCHANGED <<dvars, pvars, cvars, fvars, svars>>

\* i.st1, the token of the session
St1 == "7b2d6c"

UploadEndpoint == "sysmgmt/2012/server/transient/filestore?fileupload=true&ST1=" \o St1

CertEndpoint == "sysmgmt/2012/server/network/ssl/cert"

\* fmt.Errorf("Cert form upload POST request to %s failed, expected 201.", endpoint)
Non201Error(r, endpoint) ==
    IF r.err = ""
    THEN "Cert form upload POST request to " \o endpoint \o " failed, expected 201."
    ELSE r.err

CertFileNames == {"server.crt", "bmc.pem"}

\* (mutation of UploadRejected: only the error of the transport is looked at)
UploadRejectedOnTransportOnly(r) == r.err # ""

\* the condition under which UploadHTTPSCert gives up after phase 1
UploadRejected(r) == CallFailed(r, 201)

\* IDrac8.UploadHTTPSCert(cert, certFileName, key, keyFileName), up to the
\* POST of the multipart form (1.)
UploadHTTPSCert ==
    /\ apc = "idle"
    /\ adapter' = "UploadHTTPSCert"
    /\ \E certFileName \in CertFileNames :
         /\ config' = [certFileName |-> certFileName]
         /\ Send(<<>>,
                 Request("POST", UploadEndpoint,
                         "multipart: serverSSLCertificate=" \o certFileName \o ", CertType=2"),
                 [NoLocals EXCEPT !.step = "upload"])
    /\ UNCHANGED <<dvars, pvars, cvars, fvars, svars>>

\* IDrac8.UploadHTTPSCert, from the response to a vendor call on: the resource
\* URI of the response to 1. is posted (2.)
UploadHTTPSCertContinue ==
    /\ adapter = "UploadHTTPSCert"
    /\ apc = "waiting"
    /\ \E r \in Responses :
         CASE locals.step = "upload" ->
                IF UploadRejected(r)
                THEN Return(Answered(r), Non201Error(r, UploadEndpoint), FALSE)
                ELSE IF ~r.bodyOk
                THEN Return(Answered(r), "invalid character in the cert store response", FALSE)
                ELSE Send(Answered(r), Request("POST", CertEndpoint, "resourceURI"),
                          [locals EXCEPT !.step = "cert"])
           [] locals.step = "cert" ->
                IF CallFailed(r, 201)
                THEN Return(Answered(r), Non201Error(r, CertEndpoint), FALSE)
                ELSE Return(Answered(r), "nil", TRUE)
    /\ UNCHANGED <<adapter, config>>
    /\ UNCHANGED <<dvars, pvars, cvars, fvars, svars>>

----------------------------------------------------------------------------
(* Specifications *)

InitClient ==
    /\ registry = <<>>
    /\ ctxDone = FALSE
    /\ ctxUsed = "ctx"
    /\ op = "none"
    /\ dpc = "idle"
    /\ candidates = <<>>
    /\ idx = 1
    /\ calls = <<>>
    /\ meta = NoMetadata
    /\ result = "none"
    /\ served = 0
    /\ sink = Unset
    /\ handles = <<>>

InitConn ==
    /\ opc = "idle"
    /\ attempts = <<>>
    /\ ifs = <<>>
    /\ active = <<>>
    /\ openErr = FALSE
    /\ closes = <<>>
    /\ closeErr = 0

NotParsed == [jobId |-> "", err |-> "none"]

NoPercent == [percentComplete |-> 0, err |-> FALSE]

InitFunctions ==
    /\ input = ""
    /\ called = "none"
    /\ idResult = NotParsed
    /\ pctResult = NoPercent
    /\ escaped = ""

InitScratch ==
    /\ spc = "idle"
    /\ tmpFile = "none"
    /\ sret = "none"
    /\ executorArgs = <<>>
    /\ runs = [n \in Invocations |-> NoRun]

InitIdrac8 ==
    /\ adapter = "none"
    /\ config = [Server |-> ""]
    /\ apc = "idle"
    /\ locals = NoLocals
    /\ http = <<>>
    /\ aerr = "nil"
    /\ areset = FALSE

Init == InitClient /\ InitRacadm /\ InitConn /\ InitFunctions /\ InitIdrac8 /\ InitScratch

NextDispatch ==
    \/ Register
    \/ Cancel
    \/ GetPowerState
    \/ SetPowerState
    \/ GetBMCVersion
    \/ Invoke
    \/ DriverReturn

SpecDispatch == Init /\ [][NextDispatch]_vars

NextSession ==
    \/ RegisterInstance
    \/ Open
    \/ OpenAttempt
    \/ OpenReturns
    \/ GetPowerStateAfterOpen
    \/ SetPowerStateAfterOpen
    \/ GetBMCVersionAfterOpen
    \/ Invoke
    \/ DriverReturn

SpecSession == Init /\ [][NextSession]_vars

NextRun ==
    \/ GetJobQueue
    \/ SetArgs
    \/ ExecWithContext

SpecRun == Init /\ [][NextRun]_vars

NextPoll ==
    \/ ChangeBiosCfg
    \/ JobCtxCancel
    \/ TickerFires
    \/ TimeoutFires
    \/ SelectCtxDone
    \/ SelectTimeout
    \/ SelectTick
    \/ GetJobQueueReturns
    \/ SetBiosConfigurationFromFile
    \/ SetBiosConfigurationFromFileReturns

SpecPoll == Init /\ [][NextPoll]_vars

\* ChangeBiosCfg, called from outside the package, with the scheduling of its
\* poll loop: the timers fire, a status query returns, and a select that
\* stays with a ready case takes it
NextChangeBiosCfg ==
    \/ ChangeBiosCfg
    \/ JobCtxCancel
    \/ TickerFires
    \/ TimeoutFires
    \/ SelectCtxDone
    \/ SelectTimeout
    \/ SelectTick
    \/ GetJobQueueReturns

SpecPollFair ==
    /\ Init
    /\ [][NextChangeBiosCfg]_vars
    /\ WF_vars(TickerFires)
    /\ WF_vars(TimeoutFires)
    /\ WF_vars(SelectTick)
    /\ WF_vars(GetJobQueueReturns)
    /\ WF_vars(SelectTimeout)
    /\ WF_vars(SelectCtxDone)

NextConn ==
    \/ RegisterInstance
    \/ Open
    \/ OpenAttempt
    \/ OpenReturns
    \/ Close
    \/ CloseAttempt
    \/ CloseReturns

SpecConn == Init /\ [][NextConn]_vars

NextConfigure ==
    \/ Syslog
    \/ SyslogContinue
    \/ Ntp
    \/ NtpContinue
    \/ Ldap
    \/ LdapContinue
    \/ LdapGroups
    \/ LdapGroupsContinue
    \/ Network
    \/ NetworkContinue
    \/ UploadHTTPSCert
    \/ UploadHTTPSCertContinue
    \/ User
    \/ UserContinue

SpecConfigure == Init /\ [][NextConfigure]_vars

----------------------------------------------------------------------------
(* The pure functions applied to argument strings *)

JobHint == "Use the \"racadm jobqueue view -i JID_000123456789\" command to view the status"

LdapBaseDn == "ou=People,dc=example,dc=com"

\* lines of racadm output (as the tests of racadm.go give them, and variations)
\* and LDAP strings
ArgumentLines ==
    { "",
      "RAC977: Import configuration XML file operation initiated.",
      JobHint,
      "Use the \"racadm jobqueue view -i INVALID_JOB_ID\" command to view the status",
      "[Job ID=JID_000987654321]",
      "JID_0001",
      "Percent Complete=[20]",
      "Percent Complete=[100]",
      "Percent Complete=[007]",
      "Percent Complete=[invalid]",
      "Percent Complete=[1234567890]",
      "Percent Complete=[99999999999999999999]",
      "Percent Complete=[n/a] Percent Complete=[42]",
      "  Percent Complete=[30]",
      LdapBaseDn,
      "objectClass=posixAccount" }

RECURSIVE Join(_, _)
Join(lines, sep) ==
    IF lines = <<>> THEN ""
    ELSE IF Len(lines) = 1 THEN lines[1]
    ELSE lines[1] \o sep \o Join(Tail(lines), sep)

\* the argument strings: up to MaxLines lines
Arguments ==
    {Join(q, "\n") : q \in UNION {[1..n -> ArgumentLines] : n \in 1..MaxLines}}

ParseJobId ==
    /\ called = "none"
    /\ called' = "parseJobId"
    /\ idResult' = parseJobId(input)
    /\ UNCHANGED <<input, pctResult, escaped>>
    /\ UNCHANGED <<dvars, pvars, cvars, ivars, svars>>

ParsePercentComplete ==
    /\ called = "none"
    /\ called' = "parsePercentComplete"
    /\ pctResult' = parsePercentComplete(input)
    /\ UNCHANGED <<input, idResult, escaped>>
    /\ UNCHANGED <<dvars, pvars, cvars, ivars, svars>>

EscapeLdapString ==
    /\ called = "none"
    /\ called' = "escapeLdapString"
    /\ escaped' = escapeLdapString(input)
    /\ UNCHANGED <<input, idResult, pctResult>>
    /\ UNCHANGED <<dvars, pvars, cvars, ivars, svars>>

InitArguments ==
    /\ input \in Arguments
    /\ called = "none"
    /\ idResult = NotParsed
    /\ pctResult = NoPercent
    /\ escaped = ""

NextFunctions ==
    \/ ParseJobId
    \/ ParsePercentComplete
    \/ EscapeLdapString

\* the state before a function is applied to one of the argument strings
InitWithArguments ==
    InitClient /\ InitRacadm /\ InitConn /\ InitIdrac8 /\ InitScratch /\ InitArguments

SpecFunctions == InitWithArguments /\ [][NextFunctions]_vars

----------------------------------------------------------------------------
(* Properties of the dispatch *)

\* the registered drivers that advertise the capability of the operation
CapableSet == {i \in 1..Len(registry) : CapabilityOf(op) \in registry[i].caps}

\* C1: a dispatched operation invokes the capable drivers in registration
\* order (the k-th invocation is of the k-th capable driver), every invocation
\* before the last one failed, and a success is the result of the last driver
\* invoked: no driver registered after the serving one is invoked.
C1_FirstSuccessInOrder ==
    op # "none" =>
        /\ \A k \in 1..Len(calls) :
              /\ calls[k].driver \in CapableSet
              /\ Cardinality({i \in CapableSet : i < calls[k].driver}) = k - 1
        /\ \A k \in 1..(Len(calls) - 1) : calls[k].outcome = "failed"
        /\ result = "success" =>
              /\ calls # <<>>
              /\ calls[Len(calls)].outcome = "ok"
              /\ served = calls[Len(calls)].driver
              /\ meta.successfulProvider = registry[served].name

\* [A fails, B succeeds, C never invoked]
C1_Witness ==
    /\ result = "success"
    /\ Cardinality(CapableSet) = 3
    /\ Len(calls) = 2
    /\ calls[1].outcome = "failed"

\* C2: once the context is done no further candidate is invoked, and a
\* dispatcher that is about to invoke a candidate with the context done
\* returns the context error instead.
C2_CancelStopsDispatch ==
    [][ /\ ctxDone => Len(calls') = Len(calls)
        /\ (ctxDone /\ dpc = "iter" /\ dpc' # dpc) =>
              (dpc' = "done" /\ result' = "context error") ]_vars

\* cancelled between two candidates, after the first one failed
C2_Witness ==
    /\ result = "context error"
    /\ Len(calls) = 1
    /\ calls[1].outcome = "failed"
    /\ Len(candidates) >= 2

\* C3: when every candidate fails, the per-provider error map of the
\* aggregated error holds exactly one entry per candidate that was tried.
C3_OneEntryPerCandidate ==
    result = "aggregated error" =>
        /\ Cardinality(DOMAIN meta.perProviderErrors) = Len(calls)
        /\ \A k \in 1..Len(calls) :
              registry[calls[k].driver].name \in DOMAIN meta.perProviderErrors

\* C4: with no registered driver advertising the capability the operation
\* ends at once with "no compatible driver", no driver is invoked and
\* success is never reported.
C4_NoCompatibleDriver ==
    (op # "none" /\ CapableSet = {}) =>
        /\ dpc = "done"
        /\ result = "no compatible driver"
        /\ calls = <<>>

C4_Witness ==
    /\ result = "no compatible driver"
    /\ Len(registry) >= 2

\* C5: at most one driver invocation is in flight at any time of an operation.
C5_OneInvocationInFlight == Cardinality(InFlight) <= 1

\* the second candidate is in flight, the first has returned
C5_Witness ==
    /\ Len(calls) = 2
    /\ InFlight = {2}

\* C6: every operation ends either in a success whose serving provider is
\* recorded in the caller's metadata, or in an error.
C6_SuccessHasProvenance ==
    dpc = "done" =>
        \/ /\ result = "success"
           /\ sink.successfulProvider = registry[served].name
        \/ result \in {"no compatible driver", "context error", "aggregated error"}

\* the drivers invoked by the operation
Invoked == {calls[k].driver : k \in 1..Len(calls)}

\* driversFor(capability) over the Registry, as a set
DriversForCapability ==
    LET d == driversFor(GetDriverInterfaces(registry), registry, CapabilityOf(op))
    IN  {d[k] : k \in 1..Len(d)}

\* C29: the Dispatcher never invokes an operation on a driver that does not
\* advertise the capability of the operation: in every dispatch the invoked
\* drivers are among driversFor(capability) and each advertises the
\* capability; computing the candidate list, and the dispatch after it, leave
\* the Registry as it was.
C29_OnlyCapableDriversInvoked ==
    /\ [](op # "none" =>
            /\ Invoked \subseteq DriversForCapability
            /\ \A i \in Invoked : CapabilityOf(op) \in registry[i].caps)
    /\ [][dpc' # "idle" => (registry' = registry /\ handles' = handles)]_vars

\* a driver was invoked although a driver registered before it does not
\* advertise the capability: that one was passed over
C29_Witness ==
    /\ op # "none"
    /\ calls # <<>>
    /\ \E i \in 1..Len(registry) :
          /\ i < calls[1].driver
          /\ CapabilityOf(op) \notin registry[i].caps

----------------------------------------------------------------------------
(* Properties of the poll loop of ChangeBiosCfg *)

CompleteMarker == "Percent Complete=[100]"

\* the status outputs that contain `Percent Complete=[100]`
OutputsComplete == {o \in StatusOutputs : Contains(o, CompleteMarker)}

RECURSIVE TrailingFailures(_)
TrailingFailures(q) ==
    IF q = <<>> \/ q[Len(q)] = "ok" THEN 0
    ELSE 1 + TrailingFailures(SubSeq(q, 1, Len(q) - 1))

\* C8: the job is Failed exactly when the last maxErrors status reads all
\* failed (by a transport or a parse error), and errorCount is the number of
\* failed reads since the last successful one: 0 right after a success.
C8_FailedOnConsecutiveErrors ==
    /\ JobStatus = "Failed" <=>
          (Len(reads) = maxErrors /\ \A k \in 1..Len(reads) : reads[k] # "ok")
    /\ errorCount = TrailingFailures(reads)
    /\ JobStatus = "Polling" => errorCount < maxErrors

\* Failed on three failed reads in a row, transport and parse errors mixed
C8_Witness ==
    /\ JobStatus = "Failed"
    /\ reads = <<"transport", "parse", "transport">>

\* C9: at a wake of the loop with ctx done (the timeout not elapsed) the loop
\* issues no status query and returns the context's error, also with a tick
\* pending.
C9_CancelledWakeReturns ==
    [][ (ppc = "select" /\ jobCtxDone /\ ~timeoutReady) =>
            /\ ppc' = "returned"
            /\ ret' = "context canceled while waiting for job completion" ]_vars

\* C10: at a wake of the loop with the overall timeout elapsed (ctx not done)
\* the loop issues no status query and returns the timeout error, also with a
\* tick pending.
C10_TimeoutWakeReturns ==
    [][ (ppc = "select" /\ timeoutReady /\ ~jobCtxDone) =>
            /\ ppc' = "returned"
            /\ ret' = "timeout exceeded while waiting for job to complete" ]_vars

\* C11: when less than the overall timeout remains until ctx's deadline at the
\* call, ChangeBiosCfg returns the insufficient-deadline error at once: it has
\* run no submission command and made no status read.
C11_InsufficientDeadlineFailsFast ==
    (ppc # "idle" /\ deadline.has /\ deadline.remaining < timeout) =>
        /\ ppc = "returned"
        /\ ret = "remaining context deadline insufficient"
        /\ submitted = 0
        /\ lastRead = Unread
        /\ reads = <<>>

\* called with a deadline one ticker interval short of the timeout
C11_Witness ==
    /\ ppc = "returned"
    /\ deadline = [has |-> TRUE, remaining |-> timeout - tickerInterval]
    /\ submitted = 0

\* C32: ChangeBiosCfg called with a context that carries no deadline at all
\* is treated like one with insufficient remaining time: it returns the
\* insufficient-deadline error and issues neither the submission command nor
\* any status query.
C32_NoDeadlineFailsFast ==
    (ppc # "idle" /\ deadline = NoDeadline) =>
        /\ ppc = "returned"
        /\ ret = "remaining context deadline insufficient"
        /\ submitted = 0
        /\ output = NotRun
        /\ queries = 0
        /\ reads = <<>>

\* ChangeBiosCfg was called with a context without deadline and has returned
C32_Witness ==
    /\ ppc = "returned"
    /\ deadline = NoDeadline
    /\ ret = "remaining context deadline insufficient"

\* C33: concurrent job-poller invocations do not interfere with each other:
\* when invocations of run (GetJobQueue calls for different jobs) overlap on
\* one Racadm instance, each command is executed with the argument list set
\* by its own invocation and never with the arguments (job id) of another.
C33_CommandRunsWithOwnArguments ==
    \A n \in Invocations :
        runs[n].pc = "returned" => runs[n].executed = runs[n].args

\* the 0-based offsets at which sub occurs in s
Occurrences(s, sub) ==
    {i \in 0..Len(s) : i + Len(sub) <= Len(s) /\ SubSeq(s, i + 1, i + Len(sub)) = sub}

\* whether a line of the output o holds a job identifier: JID_ and 12 further
\* characters
HoldsJobId ==
    [o \in SubmitOutputs |->
        LET lines == Split(o, "\n")
        IN  \E k \in 1..Len(lines) :
               \E i \in Occurrences(lines[k], JobIdMarker) :
                  i + JobIdLength <= Len(lines[k])]

\* the submission command has been run and has failed, or its output holds
\* no job identifier
SubmissionFailed == submitted > 0 /\ (output.err \/ ~HoldsJobId[output.out])

\* C24: when the submission command fails or its output contains no job
\* identifier, ChangeBiosCfg returns an error and the job never reaches
\* Polling: no status query is made for that invocation.
C24_FailedSubmissionNeverPolls ==
    SubmissionFailed =>
        /\ ppc = "returned"
        /\ ret \in {"failed to execute racadm set command", "failed to parse JobID"}
        /\ jobID = ""
        /\ queries = 0
        /\ lastRead = Unread

\* C26: the percent-complete value the poller accepts from a status output
\* with a line `Percent Complete=[<digits>]` is an integer between 0 and 100:
\* in no reachable state of the poll loop does the percentComplete of a
\* successful read lie outside 0..100.
C26_PercentWithinRange ==
    lastRead.err = "none" => lastRead.percentComplete \in 0..100

\* C25: the poll loop makes at most one status query per tick of the ticker
\* and none before the first tick: the number of GetJobQueue calls is at most
\* the number of ticks that have fired since polling began, whatever the
\* progress of the job and the streak of errors; a query is in flight only
\* after a tick was taken.
C25_AtMostOneQueryPerTick ==
    /\ queries <= now
    /\ now = 0 => (queries = 0 /\ ppc # "query" /\ lastRead = Unread)
    /\ ppc = "query" => queries > 0

\* the loop has made several queries, fewer than ticks have fired (a tick
\* fell into a query in flight and was dropped), after a failed read
C25_Witness ==
    /\ queries >= 2
    /\ queries < now
    /\ errorCount > 0

TerminalStates == {"Succeeded", "Failed", "TimedOut", "Cancelled"}

C22_ScratchFileRemovedOnReturn ==
    /\ spc = "returned" =>
          /\ tmpFile # "exists"
          /\ tmpFile = "none" <=> sret = "create failed"
    /\ tmpFile = "removed" => spc = "returned"
    /\ spc = "changing" => tmpFile = "exists"
    /\ (spc = "returned" /\ sret \notin {"create failed", "write failed", "close failed"})
          => ppc = "returned" /\ sret = ret

\* SetBiosConfigurationFromFile has returned after a ChangeBiosCfg that polled
\* the job to its completion, and the scratch file is removed
C22_Witness ==
    /\ spc = "returned"
    /\ sret = "nil"
    /\ queries > 0
    /\ tmpFile = "removed"

----------------------------------------------------------------------------
(* Properties of parseJobId, parsePercentComplete and escapeLdapString *)

\* the least element of a non-empty set of numbers
Least(S) == CHOOSE x \in S : \A y \in S : x <= y

InputLines == Split(input, "\n")

\* the lines of the input that contain JID_
JobIdLines == {k \in 1..Len(InputLines) : Contains(InputLines[k], JobIdMarker)}

\* C12: parseJobId returns, without error, the 16 characters that begin at the
\* first JID_ of the first line containing JID_ (JID_000123456789 for the
\* quoted command hint), and a parse error with an empty identifier when no
\* line contains JID_ (the empty input included).
C12_JobIdIsFirstToken ==
    called = "parseJobId" =>
        /\ IF JobIdLines = {}
           THEN idResult = [jobId |-> "", err |-> "parse"]
           ELSE LET line == InputLines[Least(JobIdLines)]
                    i == Least(Occurrences(line, JobIdMarker))
                IN  /\ idResult.err = "none"
                    /\ Len(idResult.jobId) = JobIdLength
                    /\ i + JobIdLength <= Len(line)
                    /\ idResult.jobId = SubSeq(line, i + 1, i + JobIdLength)
        /\ input = JobHint => idResult.jobId = "JID_000123456789"

\* C27: for every input parseJobId returns either a parse error or an
\* identifier of exactly 16 characters that starts with JID_, also when fewer
\* than 12 characters follow JID_ on its line; it fails in no other way.
C27_JobIdOrParseError ==
    called = "parseJobId" =>
        \/ idResult.err = "parse"
        \/ /\ idResult.err = "none"
           /\ Len(idResult.jobId) = JobIdLength
           /\ HasPrefix(idResult.jobId, JobIdMarker)

\* the lines of the input that begin with `Percent Complete=[`
PercentLines == {k \in 1..Len(InputLines) : HasPrefix(InputLines[k], PercentPrefix)}

\* the offsets of line at which a `Percent Complete=[<digits>]` begins
PercentMatches(line) ==
    {i \in Occurrences(line, PercentPrefix) :
        LET d == DigitRun(line, i + Len(PercentPrefix))
            after == i + Len(PercentPrefix) + Len(d)
        IN  d # "" /\ after < Len(line) /\ SubSeq(line, after + 1, after + 1) = "]"}

\* whether the digits d denote an integer that a Go int (64 bits) holds
FitsInt(d) ==
    LET z == StripZeros(d)
    IN  \/ Len(z) < Len(MaxInt64Digits)
        \/ (Len(z) = Len(MaxInt64Digits) /\ ~DigitsGreater(z, MaxInt64Digits))

\* the integer the digits d denote, as the model holds it
Denoted(d) ==
    IF Len(StripZeros(d)) > 9 THEN Saturated ELSE DecimalValue(StripZeros(d))

ParseError == [percentComplete |-> 0, err |-> TRUE]

\* what follows the prefix of line up to its first ], or up to its end
BracketContent(line) ==
    LET rest == SubSeq(line, Len(PercentPrefix) + 1, Len(line))
        i == Index(rest, "]")
    IN  IF i = -1 THEN rest ELSE SubSeq(rest, 1, i)

IsNumeric(d) == d # "" /\ \A k \in 1..Len(d) : SubSeq(d, k, k) \in Digits

\* C13 as stated: the integer written in the first line that begins with
\* `Percent Complete=[` when the line has the form `Percent Complete=[<digits>]`;
\* a parse error with value 0 when there is no such line or when the bracket
\* content is not numeric.
C13_PercentOfBracketContent ==
    called = "parsePercentComplete" =>
        IF PercentLines = {}
        THEN pctResult = ParseError
        ELSE LET line == InputLines[Least(PercentLines)]
                 d == BracketContent(line)
             IN  /\ (IsNumeric(d) /\ line = PercentPrefix \o d \o "]") =>
                        /\ ~pctResult.err
                        /\ pctResult.percentComplete = Denoted(d)
                 /\ ~IsNumeric(d) => pctResult = ParseError

\* C13 (amended): the integer of the leftmost `Percent Complete=[<digits>]` of
\* the first line that begins with `Percent Complete=[`, when a Go int holds
\* it; a parse error with value 0 when no line begins with the prefix, when
\* that line holds no `Percent Complete=[<digits>]`, or when the digits exceed
\* the range of int.
C13_PercentOfLeftmostMatch ==
    called = "parsePercentComplete" =>
        IF PercentLines = {}
        THEN pctResult = ParseError
        ELSE LET line == InputLines[Least(PercentLines)]
             IN  IF PercentMatches(line) = {}
                 THEN pctResult = ParseError
                 ELSE LET d == DigitRun(line, Least(PercentMatches(line)) + Len(PercentPrefix))
                      IN  IF FitsInt(d)
                          THEN pctResult = [percentComplete |-> Denoted(d), err |-> FALSE]
                          ELSE pctResult = ParseError

\* the progress line follows a line that only holds the prefix after blanks
C13_Witness ==
    /\ called = "parsePercentComplete"
    /\ input = "  Percent Complete=[30]\nPercent Complete=[20]"
    /\ pctResult = [percentComplete |-> 20, err |-> FALSE]

\* the positions of the input that hold a delimiter
Delimiters == {k \in 1..Len(input) : SubSeq(input, k, k) \in {"=", ","}}

\* where in the result the image of the k-th character of the input begins
\* (0-based): each delimiter before it has grown by five characters
ImageOffset(k) == (k - 1) + 5 * Cardinality({j \in Delimiters : j < k})

\* C16: escapeLdapString replaces every = by %5C%3D and every , by %5C%2C and
\* leaves the rest as it is and in order; the result holds no raw = and no
\* raw , and ou=People,dc=example,dc=com becomes
\* ou%5C%3DPeople%5C%2Cdc%5C%3Dexample%5C%2Cdc%5C%3Dcom.
C16_EscapesDelimiters ==
    called = "escapeLdapString" =>
        /\ Len(escaped) = ImageOffset(Len(input) + 1)
        /\ \A k \in 1..Len(input) :
              LET c == SubSeq(input, k, k)
                  o == ImageOffset(k)
              IN  CASE c = "=" -> SubSeq(escaped, o + 1, o + 6) = "%5C%3D"
                    [] c = "," -> SubSeq(escaped, o + 1, o + 6) = "%5C%2C"
                    [] OTHER   -> SubSeq(escaped, o + 1, o + 1) = c
        /\ \A k \in 1..Len(escaped) : SubSeq(escaped, k, k) \notin {"=", ","}
        /\ input = LdapBaseDn =>
               escaped = "ou%5C%3DPeople%5C%2Cdc%5C%3Dexample%5C%2Cdc%5C%3Dcom"

C16_Witness ==
    /\ called = "escapeLdapString"
    /\ input = LdapBaseDn
    /\ escaped = "ou%5C%3DPeople%5C%2Cdc%5C%3Dexample%5C%2Cdc%5C%3Dcom"

----------------------------------------------------------------------------
(* Properties of Client.Open and Client.Close *)

\* the registered descriptors whose handle opened, in registration order
OpenedDescriptors ==
    LET ok == {handles[k] : k \in {j \in 1..Len(attempts) : attempts[j]}}
        RECURSIVE pick(_)
        pick(i) == IF i > Len(registry) THEN <<>>
                   ELSE IF handles[i] \in ok THEN <<i>> \o pick(i + 1)
                   ELSE pick(i + 1)
    IN  pick(1)

\* C14: Client.Open returns exactly the registered descriptors whose handle
\* opened, each once and in registration order, and leaves the Registry's
\* driver list as it was.
C14_OpenReturnsOpenedOnce ==
    [][ (opc = "opening" /\ opc' = "opened") =>
            /\ active' = OpenedDescriptors'
            /\ registry' = registry
            /\ handles' = handles ]_vars

\* how often the handle h was handed to a close attempt
CloseAttemptsOn(h) == Cardinality({k \in 1..Len(closes) : handles[k] = h})

\* C15: Close attempts to close every active handle exactly once, goes on
\* after a failed close, and returns the first error encountered, or none
\* when every close succeeded.
C15_CloseEveryHandleOnce ==
    opc = "closed" =>
        /\ \A k \in 1..Len(active) : CloseAttemptsOn(handles[active[k]]) = 1
        /\ Len(closes) = Len(registry)
        /\ closeErr = FirstFailure(closes)
        /\ closeErr = 0 <=> \A k \in 1..Len(closes) : closes[k]

\* the active driver set that Open established: the descriptors it returned
ActiveSet == {active[k] : k \in 1..Len(active)}

\* C28: after Open, every operation dispatched through the Client takes its
\* candidates from the active driver set that Open established: a driver
\* whose handle failed to open is not among the candidates and is never
\* invoked by a later operation.
C28_DispatchUsesActiveSet ==
    SessionOpen =>
        /\ \A k \in 1..Len(candidates) : candidates[k] \in ActiveSet
        /\ \A k \in 1..Len(calls) : calls[k].driver \in ActiveSet /\ attempts[calls[k].driver]

----------------------------------------------------------------------------
(* Properties of the idrac8 configuration adapters *)

\* the vendor calls of the adapter that have been answered
AnsweredCalls == {k \in 1..Len(http) : http[k].response # Pending}

\* Len("Cert form upload POST request to ")
UploadErrorPrefixLen == Len("Cert form upload POST request to ")

ValidationErrors ==
    { "LDAP resource parameter \"Server\" required but not declared.",
      "Ldap resource parameter SearchFilter required but not declared.",
      "LDAP resource parameter \"Port\" is required!",
      "LDAP resource parameter \"BaseDn\" is required!",
      "LDAP resource parameter \"userAttribute\" is required!",
      "LDAP resource parameter \"groupAttribute\" is required!",
      "LDAP resource parameter \"Group\" is required!",
      "LDAP resource parameter \"GroupBaseDn\" is required!",
      "LDAP resource parameter \"Role\" must be a valid role: \"admin\" OR \"user\"." }

\* C18: validation precedes any network call: an adapter (Ldap, LdapGroups)
\* that has rejected its input for a missing or invalid required field has
\* issued no vendor call during that invocation.
C18_ValidationBeforeAnyCall ==
    (apc = "returned" /\ aerr \in ValidationErrors) => Len(http) = 0

\* a required field of the adapter's configuration is not declared
RequiredFieldMissing ==
    CASE adapter = "Syslog" -> config.Server = ""
      [] adapter = "Ntp" -> config.Server1 = "" \/ config.Timezone = ""
      [] adapter = "Ldap" -> config.Server = "" \/ config.SearchFilter = ""
      [] adapter = "LdapGroups" ->
            \/ config.cfgLdap.Port = 0
            \/ config.cfgLdap.BaseDn = ""
            \/ config.cfgLdap.UserAttribute = ""
            \/ config.cfgLdap.GroupAttribute = ""
      [] OTHER -> FALSE

\* C19: an adapter called with a required field missing (Syslog without
\* Server, Ntp without Server1 or Timezone, Ldap without Server or
\* SearchFilter, LdapGroups without Port, BaseDn, UserAttribute or
\* GroupAttribute) never returns success: the error it returns is not nil.
C19_MissingFieldIsAnError ==
    (apc = "returned" /\ RequiredFieldMissing) => aerr # "nil"

\* the status code the calls of the adapter expect: 201 for the calls of the
\* certificate upload, 200 for the set calls
ExpectedStatus == IF adapter = "UploadHTTPSCert" THEN 201 ELSE 200

\* the vendor calls answered, without an error of the transport, with a
\* status code other than the expected one
UnexpectedStatusCalls ==
    {k \in AnsweredCalls :
        http[k].response.err = "" /\ http[k].response.status # ExpectedStatus}

\* C20: an adapter one of whose vendor calls completed with a status code
\* other than the expected one (200 for set calls, 201 for certificate calls)
\* returns a non-nil error, also when the transport reported no error.
C20_UnexpectedStatusIsAnError ==
    (apc = "returned" /\ UnexpectedStatusCalls # {}) => aerr # "nil"

\* the adapters that make their vendor calls as a sequence of steps
MultiStepAdapters == {"Syslog", "Ntp", "Ldap", "UploadHTTPSCert"}

\* the steps of the adapter's sequence that failed: the call was answered with
\* an error of the transport or with a status code other than the expected one
FailedSteps ==
    {k \in AnsweredCalls : CallFailed(http[k].response, ExpectedStatus)}

\* C30: in the multi-step adapters (Syslog, Ntp, Ldap, UploadHTTPSCert) a step
\* is attempted only if every earlier step succeeded, and the failure of a
\* step is returned to the caller as an error: a failed step is the last call
\* the adapter made, and the adapter returns a non-nil error.
C30_FailedStepAbortsSequence ==
    (adapter \in MultiStepAdapters) =>
        \A k \in FailedSteps :
            /\ Len(http) = k
            /\ apc = "returned" => aerr # "nil"

\* the entries of cfgUsers that User failed to apply: an enabled user not on
\* the device for whom the user table had no empty slot, or a user whose
\* update or disable call (putUser) failed
FailedEntries ==
    {k \in 1..Len(config) :
        \/ /\ config[k].Enable
           /\ userInIdrac(config[k].Name, locals.idracUsers) = 0
           /\ getEmptyUserSlot(locals.idracUsers) = 0
        \/ \E c \in AnsweredCalls :
              /\ http[c] = [PutUserRequest(config[k], locals.idracUsers)
                               EXCEPT !.response = http[c].response]
              /\ putUserError(http[c].response) # "nil"}

\* User has walked cfgUsers to its end and returned
UserWalked == adapter = "User" /\ apc = "returned" /\ locals.step = "done"

\* C21: when applying an entry of cfgUsers has failed (no empty slot for a new
\* enabled user, or the update or disable call failed), User returns a
\* non-nil error, also when later entries were applied successfully.
C21_FailedEntryIsReported ==
    (UserWalked /\ FailedEntries # {}) => aerr # "nil"

\* the entries of cfgUsers that the walk has a call to make for: an enabled
\* user that is on the device or that there is an empty slot for, and a
\* disabled user that is on the device
EntriesWithCall ==
    {k \in 1..Len(config) :
        IF config[k].Enable
        THEN \/ userInIdrac(config[k].Name, locals.idracUsers) # 0
             \/ getEmptyUserSlot(locals.idracUsers) # 0
        ELSE userInIdrac(config[k].Name, locals.idracUsers) # 0}

\* the entry of cfgUsers that the j-th update-or-disable call belongs to when
\* the list is walked once, in order (0: the walk has no j-th call)
EntryOfCall(j) ==
    IF \E k \in EntriesWithCall : Cardinality({i \in EntriesWithCall : i < k}) = j - 1
    THEN CHOOSE k \in EntriesWithCall : Cardinality({i \in EntriesWithCall : i < k}) = j - 1
    ELSE 0

\* the slot of the device that the call for entry k is made on
SlotOfEntry(k) ==
    IF userInIdrac(config[k].Name, locals.idracUsers) # 0
    THEN userInIdrac(config[k].Name, locals.idracUsers)
    ELSE getEmptyUserSlot(locals.idracUsers)

\* User has queried the user table and is walking cfgUsers, or has walked it
UserWalking == adapter = "User" /\ locals.step \in {"put", "done"}

\* the walk of cfgUsers: the calls after the query are, in order, the calls of
\* the entries that have one (an update for an enabled user, a disable for a
\* disabled user on the device), each entry at most once, whatever the calls
\* before returned; when User has returned no entry is left out
C31_WalkInOrder ==
    UserWalking =>
        /\ \A c \in 2..Len(http) :
              /\ EntryOfCall(c - 1) # 0
              /\ http[c] = [PutUserRequest(config[EntryOfCall(c - 1)], locals.idracUsers)
                               EXCEPT !.response = http[c].response]
        /\ UserWalked => Len(http) - 1 = Cardinality(EntriesWithCall)

\* the slots of new users: a user that is not on the device is put in an
\* empty slot of the user table, and not in the slot that an earlier call of
\* this walk has put another new user in
C31_NewUserInNewSlot ==
    UserWalking =>
        \A c \in 2..Len(http) :
            LET k == EntryOfCall(c - 1)
            IN  (k # 0 /\ userInIdrac(config[k].Name, locals.idracUsers) = 0) =>
                    /\ locals.idracUsers[SlotOfEntry(k)] = ""
                    /\ \A b \in 2..(c - 1) :
                          (/\ putUserError(http[b].response) = "nil"
                           /\ config[EntryOfCall(b - 1)].Name # config[k].Name)
                              => http[b].endpoint # http[c].endpoint

\* C31: User walks the desired user list exactly once in order and a failure
\* on one user does not stop the walk: every later user is still looked up
\* and handled, at most one update-or-disable call is issued per desired
\* user, an enabled user gets an update call (in a newly allocated empty slot
\* when not on the device), a disabled user that exists gets a disable call,
\* and a disabled user that does not exist gets no call.
C31_UserWalk == C31_WalkInOrder /\ C31_NewUserInNewSlot

\* the groups of cfgGroups that LdapGroups does not skip: the enabled ones
\* that declare a Role
AssignedGroups ==
    {k \in 1..Len(config.cfgGroups) :
        config.cfgGroups[k].Enable /\ config.cfgGroups[k].Role # ""}

\* the group that slot n is assigned to when the slots are given out from 1
\* on in list order (0: none)
GroupOfSlot(n) ==
    IF \E k \in AssignedGroups : Cardinality({i \in AssignedGroups : i < k}) = n - 1
    THEN CHOOSE k \in AssignedGroups : Cardinality({i \in AssignedGroups : i < k}) = n - 1
    ELSE 0

\* the entries xGLGroup<n>Priv of the slots n to 5: the privilege of the
\* group for an assigned slot, 0 for the rest
RECURSIVE PrivilegesOfSlots(_)
PrivilegesOfSlots(n) ==
    IF n > 5 THEN ""
    ELSE "xGLGroup" \o Itoa(n) \o "Priv:"
            \o (IF GroupOfSlot(n) = 0 THEN "0"
                ELSE IF config.cfgGroups[GroupOfSlot(n)].Role = "user" THEN "497"
                ELSE "511")
            \o "," \o PrivilegesOfSlots(n + 1)

\* C34: for every list of LDAP groups accepted by LdapGroups, the enabled
\* valid groups are assigned consecutive slot numbers starting at 1 in list
\* order, no slot number above 5 is ever used in a vendor call, and the
\* privilege payload sent last contains exactly one xGLGroup<n>Priv entry for
\* each slot n in 1..5 (the privilege of the group for an assigned slot, 0
\* for the rest).
C34_GroupSlotsWithinFive ==
    (adapter = "LdapGroups") =>
        \A c \in 1..Len(http) :
            IF http[c].method = "GET"
            THEN /\ c <= 5
                 /\ GroupOfSlot(c) # 0
                 /\ http[c].endpoint = GroupNameEndpoint(c, config.cfgGroups[GroupOfSlot(c)])
            ELSE http[c] = [LdapConfRequest(config.cfgLdap, PrivilegesOfSlots(1))
                               EXCEPT !.response = http[c].response]

====
